---- MODULE Spec2Model ----
(***************************************************************************)
(* A model of the AI wallpaper scheduler: the Scheduler class              *)
(* (src/src/services/scheduler.ts), the configuration object               *)
(* (src/src/config.ts), the Refresh Job (ImageGenerator.generateImage,     *)
(* WallpaperService.setWallpaper) and the tray application's refresh path  *)
(* (src/src/logger.ts, second half).                                       *)
(*                                                                         *)
(* Strings the code inspects are sequences of one-character strings, so    *)
(* that split(':'), Number() and the falsy test of getEnvVar are computed  *)
(* as the code computes them.  Instants are milliseconds, as Date keeps    *)
(* them; the model's epoch is a UTC midnight.  Time zones are fixed        *)
(* offsets (no daylight-saving change inside the horizon).                 *)
(***************************************************************************)
EXTENDS Integers, Sequences, FiniteSets, TLC

VARIABLES
    envFile,     \* the user-scoped .env file: key |-> text after "KEY=" ( <<>> = no line )
    config,      \* the process's config object, built once at module load
    scheduler,   \* main's Scheduler object: "none" or "ready"
    exitCode,    \* the code the process exited with (-1: it has not)
    sysTz,       \* the time zone the process runs in (Date's local zone)
    clock,       \* the current instant, ms
    alive,       \* the scheduler process has not exited
    timers,      \* armed Node timers: [id, kind, due, startedAt]
    nextId,      \* next timer handle
    intervalId,  \* Scheduler.intervalId (0 = null)
    inFlight,    \* Refresh Job executions begun by the scheduler, unfinished
    errLog,      \* messages passed to logger.error
    starts,      \* calls of startDailySchedule so far
    lastStart,   \* what the last startDailySchedule call computed and did
    stopped,     \* stop() has returned and startDailySchedule was not called since
    stopCalled,  \* stop() was called at some time in this process
    platform,    \* process.platform
    isDev,       \* the tray application runs unpackaged (!app.isPackaged)
    trayUp,      \* the tray application is running
    trayConfig,  \* the config object of the tray application's process
    job,         \* the Refresh Job of a `once` process or of the tray application
    lastRun,     \* how the last refresh attempt that reports to a caller ended
                 \* (a `once` process, the tray application, main's constructor)
    dateNow,     \* the instant new Date() returns to generateFilename, ms
    imageFiles,  \* the images directory: file name |-> the save that wrote it
    saves,       \* calls of saveBase64Image so far
    cmp,         \* a call of isNewerVersion: its arguments and its result
    ui,          \* the front end that runs: "tray" or "web"
    phase,       \* "running", or "exited" after app.quit()
    pkgVersion,  \* version of package.json, UpdateService.currentVersion
    remote,      \* the last answer of the release feed
    updateInfo,  \* the UpdateInfo the front end holds
    updLog,      \* the last message checkForUpdates logged
    appDir,      \* the update files present in the application directory
    restartTimer,\* the setTimeout of install-update is pending
    reply,       \* the last result a front end returned
    attempt,     \* the last update attempt
    psRun,       \* the last run of update.ps1
    launch,      \* the last start of the launcher
    loaded,      \* what load-config last returned to the settings window
    present,     \* the keys that have a line in the .env file
    devEnvFile,  \* the .env file of the development location
    lastSave,    \* the last call of save-config: its writes and its result
    stopLog,     \* the calls of stop() so far, whether one of them threw,
                 \* whether the last one was made on a stopped Scheduler
    disk,        \* the characters of the .env file, where writes are followed
                 \* system call by system call
    ops          \* the fs.writeFile calls of save-config and load-config

schedVars == <<envFile, config, scheduler, exitCode, sysTz, clock,
               alive, timers, nextId, intervalId, inFlight, errLog, starts,
               lastStart, stopped, stopCalled>>

jobVars == <<platform, isDev, trayUp, trayConfig, job, lastRun>>

imgVars == <<dateNow, imageFiles, saves>>

verVars == <<cmp>>

updVars == <<ui, phase, pkgVersion, remote, updateInfo, updLog, appDir,
             restartTimer, reply, attempt, psRun, launch>>

cfgVars == <<loaded, present, devEnvFile, lastSave>>
obsVars == <<stopLog>>
raceVars == <<disk, ops>>

extVars == <<imgVars, verVars, updVars, cfgVars, obsVars, raceVars>>

\* what the actions of one part leave alone
notImgVars == <<schedVars, jobVars, verVars, updVars, cfgVars, obsVars, raceVars>>
notVerVars == <<schedVars, jobVars, imgVars, updVars, cfgVars, obsVars, raceVars>>
notUpdVars == <<schedVars, jobVars, imgVars, verVars, cfgVars, obsVars, raceVars>>

vars == <<schedVars, jobVars, extVars>>

-----------------------------------------------------------------------------
(* Bounds of the model *)

\* startDailySchedule is called at most this many times per process
MaxStarts == 2
\* timers fire up to this many days after the epoch day
MaxDays == 2
\* at most this many Refresh Job executions of the scheduler are unfinished
MaxInFlight == 2

\* stop() is called at most this many times
MaxStops == 2

-----------------------------------------------------------------------------
(* Units and program constants *)

MinuteMs == 60 * 1000
HourMs == 60 * MinuteMs
DayMs == 24 * HourMs
\* scheduler.ts:55  "More than 1 hour away"
CatchUpThresholdMs == 3600000
\* scheduler.ts:62
dailyInterval == 24 * 60 * 60 * 1000

HorizonMs == (MaxDays + 1) * DayMs

(* String literals of the code, as character sequences *)
DigitChars == <<"0", "1", "2", "3", "4", "5", "6", "7", "8", "9">>
DefaultScheduleTime == <<"0", "9", ":", "0", "0">>
DefaultTimezone == <<"A", "m", "e", "r", "i", "c", "a", "/", "N", "e", "w", "_", "Y", "o", "r", "k">>
TzUTC == <<"U", "T", "C">>
TzTokyo == <<"A", "s", "i", "a", "/", "T", "o", "k", "y", "o">>
\* the default prompt, shortened: 'A beautiful serene landscape ...'
DefaultPrompt ==
    <<"A", " ", "b", "e", "a", "u", "t", "i", "f", "u", "l", " ", "s", "e",
    "r", "e", "n", "e", " ", "l", "a", "n", "d", "s", "c", "a", "p", "e">>
PromptCity == <<"c", "i", "t", "y">>
KeyValid == <<"A", "I", "z", "a">>
CanonicalApiUrl ==
    <<"h", "t", "t", "p", "s", ":", "/", "/", "g", "e", "n", "e", "r", "a",
    "t", "i", "v", "e", "l", "a", "n", "g", "u", "a", "g", "e", ".", "g",
    "o", "o", "g", "l", "e", "a", "p", "i", "s", ".", "c", "o", "m", "/",
    "v", "1", "b", "e", "t", "a", "/", "m", "o", "d", "e", "l", "s", "/",
    "g", "e", "m", "i", "n", "i", "-", "3", "-", "p", "r", "o", "-", "i",
    "m", "a", "g", "e", "-", "p", "r", "e", "v", "i", "e", "w", ":", "g",
    "e", "n", "e", "r", "a", "t", "e", "C", "o", "n", "t", "e", "n", "t">>
SetupDefaultApiUrl ==
    <<"h", "t", "t", "p", "s", ":", "/", "/", "a", "p", "i", ".", "g", "o",
    "o", "g", "l", "e", ".", "c", "o", "m", "/", "n", "a", "n", "o", "-",
    "b", "a", "n", "a", "n", "a", "-", "p", "r", "o", "/", "g", "e", "n",
    "e", "r", "a", "t", "e">>
MarkerNanoBanana ==
    <<"n", "a", "n", "o", "-", "b", "a", "n", "a", "n", "a", "-", "p", "r",
    "o">>
MarkerApiGoogle ==
    <<"a", "p", "i", ".", "g", "o", "o", "g", "l", "e", ".", "c", "o", "m">>
MarkerExp ==
    <<"-", "e", "x", "p">>
MarkerFlashImage25 ==
    <<"g", "e", "m", "i", "n", "i", "-", "2", ".", "5", "-", "f", "l", "a",
    "s", "h", "-", "i", "m", "a", "g", "e">>
MarkerGemini3Pro ==
    <<"g", "e", "m", "i", "n", "i", "-", "3", "-", "p", "r", "o">>
MarkerImage ==
    <<"i", "m", "a", "g", "e">>
PlaceholderKey ==
    <<"y", "o", "u", "r", "_", "a", "p", "i", "_", "k", "e", "y", "_", "h",
    "e", "r", "e">>
DefaultAspectRatio ==
    <<"1", "6", ":", "9">>
DefaultImageSize ==
    <<"1", "K">>
AspectSquare ==
    <<"1", ":", "1">>
Size4K ==
    <<"4", "K">>

Zones == {DefaultTimezone, TzUTC, TzTokyo}

\* the offset of local time from UTC in a zone, ms (standard time)
TzOffset(tz) ==
    CASE tz = DefaultTimezone -> (0 - 5) * HourMs
      [] tz = TzUTC -> 0
      [] tz = TzTokyo -> 9 * HourMs

-----------------------------------------------------------------------------
(* String operations of JavaScript *)

\* s.includes(sub)
Includes(s, sub) ==
    \E i \in 0..(Len(s) - Len(sub)) : SubSeq(s, i + 1, i + Len(sub)) = sub

RECURSIVE EscapeQuotes(_)
\* s.replace(/"/g, '\\"')
EscapeQuotes(s) ==
    IF s = <<>> THEN <<>>
    ELSE IF Head(s) = "\"" THEN <<"\\", "\"">> \o EscapeQuotes(Tail(s))
    ELSE <<Head(s)>> \o EscapeQuotes(Tail(s))

RECURSIVE TrimLeft(_)
TrimLeft(s) == IF s # <<>> /\ Head(s) = " " THEN TrimLeft(Tail(s)) ELSE s

RECURSIVE TrimRight(_)
TrimRight(s) ==
    IF s # <<>> /\ s[Len(s)] = " " THEN TrimRight(SubSeq(s, 1, Len(s) - 1)) ELSE s

\* s.trim()
Trim(s) == TrimRight(TrimLeft(s))

\* the part of s before the first c
UpTo(s, c) ==
    LET at == {i \in 1..Len(s) : s[i] = c}
    IN  IF at = {} THEN s
        ELSE SubSeq(s, 1, (CHOOSE i \in at : \A j \in at : i <= j) - 1)

-----------------------------------------------------------------------------
(* The .env file and config.ts *)

Keys == {"GOOGLE_API_KEY", "GOOGLE_API_URL", "IMAGE_PROMPT", "ASPECT_RATIO",
         "IMAGE_SIZE", "SCHEDULE_TIME", "TIMEZONE"}

\* save-config, the deprecated-endpoint test on GOOGLE_API_URL
IsDeprecatedUrl(url) ==
    \/ Includes(url, MarkerNanoBanana)
    \/ Includes(url, MarkerExp)
    \/ Includes(url, MarkerFlashImage25)
    \/ (Includes(url, MarkerGemini3Pro) /\ ~Includes(url, MarkerImage))

\* save-config: correctedConfig
CorrectedConfig(form) ==
    LET url == form["GOOGLE_API_URL"]
        fixed == IF url # <<>> /\ IsDeprecatedUrl(url) THEN CanonicalApiUrl ELSE url
    IN  [form EXCEPT !["GOOGLE_API_URL"] = IF fixed = <<>> THEN CanonicalApiUrl ELSE fixed]

\* save-config: escapedValue
EscapeValue(value) ==
    IF Includes(value, <<" ">>) \/ Includes(value, <<"#">>) \/ Includes(value, <<"=">>)
    THEN <<"\"">> \o EscapeQuotes(value) \o <<"\"">>
    ELSE value

\* save-config: the text written to the file, key by key
SaveConfigContent(form) ==
    LET corrected == CorrectedConfig(form)
    IN  [k \in Keys |-> EscapeValue(corrected[k])]

\* dotenv.config: the value of one KEY=text line in process.env
DotenvValue(text) ==
    LET t == Trim(text)
    IN  IF Len(t) >= 2 /\ Head(t) = "\"" /\ t[Len(t)] = "\""
        THEN SubSeq(t, 2, Len(t) - 1)
        ELSE Trim(UpTo(t, "#"))

\* process.env after dotenv.config({ path: userEnvPath })
ProcessEnv(file) == [k \in Keys |-> DotenvValue(file[k])]

\* getEnvVar(key, defaultValue): undefined is <<>>
getEnvVar(value, defaultValue) ==
    IF value = <<>> /\ defaultValue = <<>> THEN <<>>
    ELSE IF value # <<>> THEN value ELSE defaultValue

\* config.ts:143-181: correctedApiUrl
CorrectedApiUrl(rawUrl) ==
    IF rawUrl # <<>> /\ (\/ Includes(rawUrl, MarkerNanoBanana)
                         \/ Includes(rawUrl, MarkerApiGoogle)
                         \/ Includes(rawUrl, MarkerExp))
    THEN CanonicalApiUrl
    ELSE IF rawUrl # <<>> THEN rawUrl ELSE CanonicalApiUrl

\* config.ts:148-177: module load rewrites a deprecated GOOGLE_API_URL line of
\* the file (taken as one step with the load)
WriteBackApiUrl(file) ==
    LET rawUrl == getEnvVar(ProcessEnv(file)["GOOGLE_API_URL"], <<>>)
    IN  IF rawUrl # <<>> /\ CorrectedApiUrl(rawUrl) # rawUrl
        THEN [file EXCEPT !["GOOGLE_API_URL"] = CanonicalApiUrl]
        ELSE file

\* export const config = {...}: evaluated once, when the module is loaded
LoadConfig(file) ==
    LET env == ProcessEnv(file)
    IN  [ apiKey |-> getEnvVar(env["GOOGLE_API_KEY"], <<>>),
          apiUrl |-> CorrectedApiUrl(getEnvVar(env["GOOGLE_API_URL"], <<>>)),
          imagePrompt |-> getEnvVar(env["IMAGE_PROMPT"], DefaultPrompt),
          aspectRatio |-> getEnvVar(env["ASPECT_RATIO"], DefaultAspectRatio),
          imageSize |-> getEnvVar(env["IMAGE_SIZE"], DefaultImageSize),
          scheduleTime |-> getEnvVar(env["SCHEDULE_TIME"], DefaultScheduleTime),
          timezone |-> getEnvVar(env["TIMEZONE"], DefaultTimezone) ]

-----------------------------------------------------------------------------
(* Scheduler.startDailySchedule: the delay computation *)

RECURSIVE SplitAt(_, _, _)
\* s.split(sep): cur is the part being read
SplitAt(s, sep, cur) ==
    IF s = <<>> THEN <<cur>>
    ELSE IF Head(s) = sep THEN <<cur>> \o SplitAt(Tail(s), sep, <<>>)
    ELSE SplitAt(Tail(s), sep, Append(cur, Head(s)))

Split(s, sep) == SplitAt(s, sep, <<>>)

DigitValue(c) == CHOOSE d \in 0..9 : DigitChars[d + 1] = c

RECURSIVE NumberAcc(_, _)
NumberAcc(s, acc) ==
    IF s = <<>> THEN acc ELSE NumberAcc(Tail(s), acc * 10 + DigitValue(Head(s)))

\* Number(s) of a string of decimal digits ("" is 0)
Number(s) == NumberAcc(s, 0)

\* local midnight of the day of instant t, as a wall-clock reading
LocalDayStart(t, off) == ((t + off) \div DayMs) * DayMs

\* d = new Date(t); d.setHours(h, m, 0, 0); d.getTime()
SetHours(t, off, h, m) == LocalDayStart(t, off) + h * HourMs + m * MinuteMs - off

\* d.setDate(d.getDate() + 1)
AddOneDay(t) == t + DayMs

\* variant: "today" is kept when it equals now
ScheduledTimeStrict(time, now, off) ==
    LET parts == Split(time, ":")
        hours == Number(parts[1])
        minutes == Number(parts[2])
        today == SetHours(now, off, hours, minutes)
    IN  IF today < now THEN AddOneDay(today) ELSE today

\* scheduler.ts:40-48: the instant of the next scheduled run
ScheduledTime(time, now, off) ==
    LET parts == Split(time, ":")
        hours == Number(parts[1])
        minutes == Number(parts[2])
        today == SetHours(now, off, hours, minutes)
    IN  IF today <= now THEN AddOneDay(today) ELSE today

\* scheduler.ts:50
MsUntilNext(time, now, off) == ScheduledTime(time, now, off) - now

-----------------------------------------------------------------------------
(* The Scheduler object and the timers of its process *)

NoConfig == [ apiKey |-> <<>>, apiUrl |-> <<>>, imagePrompt |-> <<>>,
              aspectRatio |-> <<>>, imageSize |-> <<>>, scheduleTime |-> <<>>,
              timezone |-> <<>> ]

NoStart == [ at |-> 0, delay |-> 0, catchUp |-> FALSE, timer |-> 0 ]

\* a Refresh Job execution begun by `src` (and the timer `id` of its caller);
\* part_001:20: the message of the error the constructor throws
ConfigErrorMessage == "Google API key is not configured"

\* variant: the constructor does not test the key
ConstructorNeverThrows(cfg) == FALSE

\* part_001:18-21: new ImageGenerator() throws if config.google.apiKey is falsy
ConstructorThrows(cfg) == cfg.apiKey = <<>>

\* how the external calls of one Refresh Job turn out: the provider returns an
\* image, the image file can be copied, the reg.exe/powershell commands
\* succeed, the wallpaper package succeeds (a call that is not reached after
\* an earlier failure has no outcome: FALSE)
Outcomes ==
    { out \in [ gen : BOOLEAN, file : BOOLEAN, reg : BOOLEAN, api : BOOLEAN ] :
        /\ ~out.gen => ~out.file
        /\ ~out.file => ~out.reg /\ ~out.api }

\* scheduler.ts:107-182: "set", "resolved" (returned without the wallpaper
\* being set) or "threw"
setWallpaper(plat, out) ==
    IF ~out.file THEN "threw"
    ELSE IF plat = "win32"
         THEN IF out.reg THEN "set"
              ELSE IF out.api THEN "set" ELSE "resolved"
         ELSE IF out.api THEN "set" ELSE "threw"

\* scheduler.ts:22-24, part_000:915-916, logger.ts:977-978:
\* generateImage, then setWallpaper with the path it returned
RefreshJob(plat, out) ==
    IF ~out.gen
    THEN [ ok |-> FALSE, set |-> FALSE, error |-> "generation" ]
    ELSE LET w == setWallpaper(plat, out)
         IN  [ ok |-> w # "threw", set |-> w = "set",
               error |-> IF w = "threw" THEN "wallpaper" ELSE "none" ]

\* how a refresh attempt ended: who made it, the key its ImageGenerator was
\* constructed with, whether a provider request was made, whether it
\* completed without an error, whether the wallpaper was set
RunResult(caller, apiKey, requested, res) ==
    [ caller |-> caller, apiKey |-> apiKey, requested |-> requested,
      ok |-> res.ok, set |-> res.set, error |-> res.error ]

NoRun == RunResult("none", <<>>, FALSE,
                   [ ok |-> FALSE, set |-> FALSE, error |-> "none" ])

ConfigError(caller) ==
    RunResult(caller, <<>>, FALSE,
              [ ok |-> FALSE, set |-> FALSE, error |-> ConfigErrorMessage ])

\* what a provider request is made with
Params(apiKey, prompt, aspectRatio, imageSize) ==
    [ apiKey |-> apiKey, prompt |-> prompt, aspectRatio |-> aspectRatio,
      imageSize |-> imageSize ]

\* part_001:18-24 and 70-81: the key is the one the constructor read, the
\* aspect ratio and the size are read from config (with their fallbacks)
GenerateParams(cfg, prompt) ==
    Params(cfg.apiKey, prompt,
           IF cfg.aspectRatio = <<>> THEN DefaultAspectRatio ELSE cfg.aspectRatio,
           IF cfg.imageSize = <<>> THEN DefaultImageSize ELSE cfg.imageSize)

\* what a request would be made with if the file were read now
FreshParams(file) == GenerateParams(LoadConfig(file), LoadConfig(file).imagePrompt)

\* scheduler.ts:19-23: runOnce reads config.app.imagePrompt and calls
\* generateImage
NewRun(src, id, at, cfg) ==
    [ src |-> src, timer |-> id, at |-> at,
      used |-> GenerateParams(cfg, cfg.imagePrompt) ]

\* the armed timer that fires next
IsNext(t) == t \in timers /\ \A u \in timers : t.due <= u.due

\* variant: the catch-up run also begins at exactly one hour
CatchUpAtLeast(msUntilNext) == msUntilNext >= CatchUpThresholdMs

\* scheduler.ts:55
CatchUp(msUntilNext) == msUntilNext > CatchUpThresholdMs

\* scheduler.ts:36-75, up to the return of startDailySchedule
StartEffects(cfg) ==
    LET now == clock
        msUntilNext == MsUntilNext(cfg.scheduleTime, now, TzOffset(sysTz))
        catchUp == CatchUp(msUntilNext)
        timeout == [ id |-> nextId, kind |-> "timeout", due |-> now + msUntilNext,
                     startedAt |-> now ]
    IN  /\ inFlight' = IF catchUp THEN inFlight \cup {NewRun("initial", nextId, now, cfg)}
                        ELSE inFlight
        /\ timers' = timers \cup {timeout}
        /\ nextId' = nextId + 1
        /\ starts' = starts + 1
        /\ lastStart' = [ at |-> now, delay |-> msUntilNext, catchUp |-> catchUp,
                          timer |-> nextId ]
        /\ stopped' = FALSE

\* part_000:920-937 after module load: command 'schedule'.  The constructor of
\* Scheduler builds an ImageGenerator, which throws without an API key; main's
\* catch then exits with code 1.
MainSchedule ==
    /\ ~alive /\ exitCode = 0 - 1
    /\ config' = LoadConfig(envFile)
    /\ intervalId' = 0
    /\ errLog' = {}
    /\ stopCalled' = FALSE
    /\ IF ConstructorThrows(LoadConfig(envFile))
       THEN /\ alive' = FALSE
            /\ exitCode' = 1
            /\ scheduler' = "none"
            /\ nextId' = 1
            /\ lastRun' = ConfigError("schedule")
            /\ UNCHANGED <<inFlight, timers, starts, lastStart, stopped>>
       ELSE /\ alive' = TRUE
            /\ exitCode' = 0 - 1
            /\ scheduler' = "ready"
            /\ StartEffects(LoadConfig(envFile))
            /\ UNCHANGED lastRun
    /\ envFile' = WriteBackApiUrl(envFile)
    /\ UNCHANGED <<sysTz, clock, platform, isDev, trayUp, trayConfig, job>>
    /\ UNCHANGED extVars

\* a further call of startDailySchedule on the same Scheduler
StartDailySchedule ==
    /\ alive /\ scheduler = "ready"
    /\ starts < MaxStarts
    /\ Cardinality(inFlight) < MaxInFlight
    /\ StartEffects(config)
    /\ UNCHANGED <<envFile, config, scheduler, exitCode, sysTz, clock,
                   alive, intervalId, errLog, stopCalled>>
    /\ UNCHANGED jobVars
    /\ UNCHANGED extVars

\* scheduler.ts:64-74: the callback of setTimeout
TimeoutFire(t) ==
    /\ alive
    /\ IsNext(t) /\ t.kind = "timeout"
    /\ t.due <= HorizonMs
    /\ Cardinality(inFlight) < MaxInFlight
    /\ clock' = t.due
    /\ inFlight' = inFlight \cup {NewRun("timeout", t.id, t.due, config)}
    /\ timers' = (timers \ {t}) \cup
                 {[ id |-> nextId, kind |-> "interval", due |-> t.due + dailyInterval,
                    startedAt |-> t.startedAt ]}
    /\ intervalId' = nextId
    /\ nextId' = nextId + 1
    /\ UNCHANGED <<envFile, config, scheduler, exitCode, sysTz, alive,
                   errLog, starts, lastStart, stopped, stopCalled>>
    /\ UNCHANGED jobVars
    /\ UNCHANGED extVars

\* variant: the recurring trigger is re-armed for the SCHEDULE_TIME in the file
IntervalFireRereads(t) ==
    /\ alive
    /\ IsNext(t) /\ t.kind = "interval"
    /\ t.due <= HorizonMs
    /\ Cardinality(inFlight) < MaxInFlight
    /\ clock' = t.due
    /\ inFlight' = inFlight \cup {NewRun("interval", t.id, t.due, config)}
    /\ timers' = (timers \ {t}) \cup
                 {[t EXCEPT !.due = t.due + MsUntilNext(LoadConfig(envFile).scheduleTime,
                                                        t.due, TzOffset(sysTz))]}
    /\ UNCHANGED <<envFile, config, scheduler, exitCode, sysTz, alive,
                   nextId, intervalId, errLog, starts, lastStart, stopped,
                   stopCalled>>
    /\ UNCHANGED jobVars
    /\ UNCHANGED extVars

\* scheduler.ts:69-73: the callback of setInterval
IntervalFire(t) ==
    /\ alive
    /\ IsNext(t) /\ t.kind = "interval"
    /\ t.due <= HorizonMs
    /\ Cardinality(inFlight) < MaxInFlight
    /\ clock' = t.due
    /\ inFlight' = inFlight \cup {NewRun("interval", t.id, t.due, config)}
    /\ timers' = (timers \ {t}) \cup {[t EXCEPT !.due = t.due + dailyInterval]}
    /\ UNCHANGED <<envFile, config, scheduler, exitCode, sysTz, alive,
                   nextId, intervalId, errLog, starts, lastStart, stopped,
                   stopCalled>>
    /\ UNCHANGED jobVars
    /\ UNCHANGED extVars

\* what the .catch of the caller logs when runOnce rejects (scheduler.ts:57,66,71)
CallerMessage(src) ==
    IF src = "initial" THEN "Initial wallpaper update failed"
    ELSE "Scheduled wallpaper update failed"

\* variant: the .catch of the caller logs and rethrows; the unhandled rejection
\* ends the process
RunOnceEndsRethrows(r, out) ==
    /\ alive
    /\ r \in inFlight
    /\ errLog' = IF RefreshJob(platform, out).ok THEN errLog
                 ELSE errLog \cup {"Wallpaper update failed", CallerMessage(r.src)}
    /\ IF RefreshJob(platform, out).ok
       THEN /\ inFlight' = inFlight \ {r}
            /\ UNCHANGED <<alive, exitCode, timers>>
       ELSE /\ inFlight' = {}
            /\ alive' = FALSE
            /\ exitCode' = 1
            /\ timers' = {}
    /\ UNCHANGED <<envFile, config, scheduler, sysTz, clock,
                   nextId, intervalId, starts, lastStart, stopped,
                   stopCalled>>
    /\ UNCHANGED jobVars
    /\ UNCHANGED extVars

\* scheduler.ts:19-30 and the .catch of its caller: the run r ends
RunOnceEnds(r, out) ==
    /\ alive
    /\ r \in inFlight
    /\ inFlight' = inFlight \ {r}
    /\ errLog' = IF RefreshJob(platform, out).ok THEN errLog
                 ELSE errLog \cup {"Wallpaper update failed", CallerMessage(r.src)}
    /\ UNCHANGED <<envFile, config, scheduler, exitCode, sysTz, clock,
                   alive, timers, nextId, intervalId, starts, lastStart, stopped,
                   stopCalled>>
    /\ UNCHANGED jobVars
    /\ UNCHANGED extVars

\* scheduler.ts:80-86
StopEffects ==
    /\ timers' = IF intervalId # 0 THEN {t \in timers : t.id # intervalId} ELSE timers
    /\ intervalId' = 0
    /\ stopped' = TRUE
    /\ stopCalled' = TRUE

Stop ==
    /\ alive /\ scheduler = "ready"
    /\ StopEffects
    /\ UNCHANGED <<envFile, config, scheduler, exitCode, sysTz, clock,
                   alive, nextId, inFlight, errLog, starts, lastStart>>
    /\ UNCHANGED jobVars
    /\ UNCHANGED extVars

\* variant: clearInterval is called without the test of intervalId and
\* rejects null
StopThrowsUnarmed == intervalId = 0

\* scheduler.ts:80-86: clearInterval, the assignment and logger.info do not
\* throw
StopThrows == FALSE

\* scheduler.ts:80-86: stop() called on the Scheduler by its owner, with the
\* calls counted
StopCall ==
    /\ alive /\ scheduler = "ready"
    /\ stopLog.calls < MaxStops
    /\ stopLog' = [ calls |-> stopLog.calls + 1,
                    threw |-> stopLog.threw \/ StopThrows,
                    onStopped |-> stopLog.calls > 0 /\ intervalId = 0 ]
    /\ IF StopThrows
       THEN UNCHANGED <<timers, intervalId, stopped, stopCalled>>
       ELSE StopEffects
    /\ UNCHANGED <<envFile, config, scheduler, exitCode, sysTz, clock,
                   alive, nextId, inFlight, errLog, starts, lastStart>>
    /\ UNCHANGED jobVars
    /\ UNCHANGED <<imgVars, verVars, updVars, cfgVars, raceVars>>

\* part_000:927-937: SIGINT or SIGTERM: scheduler.stop(); process.exit(0)
Signal ==
    /\ alive /\ scheduler = "ready"
    /\ alive' = FALSE
    /\ exitCode' = 0
    /\ scheduler' = "none"
    /\ timers' = {}
    /\ inFlight' = {}
    /\ intervalId' = 0
    /\ stopped' = TRUE
    /\ stopCalled' = TRUE
    /\ starts' = 0
    /\ lastStart' = NoStart
    /\ nextId' = 1
    /\ UNCHANGED <<envFile, config, sysTz, clock, errLog>>
    /\ UNCHANGED jobVars
    /\ UNCHANGED extVars

\* the outcomes of an fs.writeFile
Writes == {"ok", "failed"}

\* variant: a failure of the development copy fails the save
SaveConfigResultDevFatal(userWrite, devWrite, dev) ==
    IF userWrite = "ok" /\ (~dev \/ devWrite = "ok")
    THEN [ success |-> "true", error |-> "" ]
    ELSE [ success |-> "false", error |-> "EACCES: permission denied" ]

\* logger.ts:1296-1349: what save-config returns when the write of the user
\* file ends as userWrite and, in dev mode, that of the development copy as
\* devWrite
SaveConfigResult(userWrite, devWrite, dev) ==
    IF userWrite = "ok"
    THEN [ success |-> "true", error |-> "" ]
    ELSE [ success |-> "false", error |-> "EACCES: permission denied" ]

\* logger.ts:1296-1349
SaveConfigIpc(form, userWrite, devWrite) ==
    /\ \E res \in {SaveConfigResult(userWrite, devWrite, isDev)} :
          lastSave' = [ userWrite |-> userWrite,
                        devWrite |-> IF isDev /\ userWrite = "ok" THEN devWrite
                                     ELSE "none",
                        success |-> res.success, error |-> res.error ]
    /\ IF userWrite = "ok"
       THEN /\ envFile' = SaveConfigContent(form)
            /\ present' = Keys
       ELSE UNCHANGED <<envFile, present>>
    /\ devEnvFile' = IF userWrite = "ok" /\ isDev /\ devWrite = "ok"
                     THEN SaveConfigContent(form) ELSE devEnvFile
    /\ UNCHANGED <<config, scheduler, exitCode, sysTz, clock, alive, timers,
                   nextId, intervalId, inFlight, errLog, starts, lastStart, stopped,
                   stopCalled>>
    /\ UNCHANGED jobVars
    /\ UNCHANGED <<imgVars, verVars, updVars, obsVars, raceVars, loaded>>

\* logger.ts:1296-1349, by the settings window of the tray application: a
\* save-config whose writes succeed
SaveConfig(form) == SaveConfigIpc(form, "ok", "ok")

-----------------------------------------------------------------------------
(* The Refresh Job outside the scheduler: `once` processes and the tray *)

\* everything of the scheduler's process
procVars == <<config, scheduler, exitCode, sysTz, clock, alive, timers, nextId,
              intervalId, inFlight, errLog, starts, lastStart, stopped, stopCalled>>

NoJob == [ pc |-> "idle", caller |-> "none",
           used |-> Params(<<>>, <<>>, <<>>, <<>>) ]

Running(caller, used) == [ pc |-> "running", caller |-> caller, used |-> used ]

\* logger.ts:1093-1101: the value of a line, surrounding quotes removed
FreshValue(text) ==
    LET value == Trim(text)
    IN  IF /\ value # <<>>
           /\ \/ Head(value) = "\"" /\ value[Len(value)] = "\""
              \/ Head(value) = "'" /\ value[Len(value)] = "'"
        THEN SubSeq(value, 2, Len(value) - 1)
        ELSE value

\* logger.ts:1073-1117
loadFreshConfig(file) == [k \in Keys |-> FreshValue(file[k])]

\* logger.ts:1120-1147: a line GOOGLE_API_KEY=<something that is not blank and
\* not the placeholder>
hasApiKey(file) ==
    /\ file["GOOGLE_API_KEY"] # <<>>
    /\ Trim(file["GOOGLE_API_KEY"]) # <<>>
    /\ Trim(file["GOOGLE_API_KEY"]) # PlaceholderKey

\* logger.ts:1160 after the imports: logger.ts:4 has loaded config.ts
TrayReady ==
    /\ ~trayUp
    /\ trayUp' = TRUE
    /\ trayConfig' = LoadConfig(envFile)
    /\ envFile' = WriteBackApiUrl(envFile)
    /\ UNCHANGED <<platform, isDev, job, lastRun>>
    /\ UNCHANGED procVars
    /\ UNCHANGED extVars

\* logger.ts:937-1024 (menu item, and the test-wallpaper handler 1351-1364)
updateWallpaper(exeFound) ==
    /\ trayUp
    /\ job.pc = "idle"
    /\ IF ~hasApiKey(envFile)
       THEN /\ lastRun' = RunResult("tray", <<>>, FALSE,
                              [ ok |-> FALSE, set |-> FALSE, error |-> "API Key Required" ])
            /\ UNCHANGED job
       ELSE IF isDev
       THEN LET freshConfig == loadFreshConfig(envFile)
                imagePrompt == IF freshConfig["IMAGE_PROMPT"] # <<>>
                               THEN freshConfig["IMAGE_PROMPT"] ELSE DefaultPrompt
            IN  IF ConstructorThrows(trayConfig)
                THEN /\ lastRun' = ConfigError("tray")
                     /\ UNCHANGED job
                ELSE /\ job' = Running("tray", GenerateParams(trayConfig, imagePrompt))
                     /\ UNCHANGED lastRun
       ELSE IF exeFound
       THEN /\ job' = [NoJob EXCEPT !.pc = "spawned"]
            /\ UNCHANGED lastRun
       ELSE /\ lastRun' = RunResult("tray", <<>>, FALSE,
                              [ ok |-> FALSE, set |-> FALSE,
                                error |-> "screensaver.exe not found" ])
            /\ UNCHANGED job
    /\ UNCHANGED <<envFile, platform, isDev, trayUp, trayConfig>>
    /\ UNCHANGED procVars
    /\ UNCHANGED extVars

\* part_000:901-919: a process of the command `once` (started by the tray
\* application or by the Task Scheduler) loads config.ts and constructs
\* the ImageGenerator
MainOnce ==
    /\ job.pc \in {"idle", "spawned"}
    /\ IF ConstructorThrows(LoadConfig(envFile))
       THEN /\ lastRun' = ConfigError("once")
            /\ job' = NoJob
       ELSE /\ job' = Running("once", GenerateParams(LoadConfig(envFile),
                                                    LoadConfig(envFile).imagePrompt))
            /\ UNCHANGED lastRun
    /\ envFile' = WriteBackApiUrl(envFile)
    /\ UNCHANGED <<platform, isDev, trayUp, trayConfig>>
    /\ UNCHANGED procVars
    /\ UNCHANGED extVars

\* part_000:915-919 and 976-979, logger.ts:977-1001: the job ends
JobEnds(out) ==
    /\ job.pc = "running"
    /\ lastRun' = RunResult(job.caller, job.used.apiKey, TRUE, RefreshJob(platform, out))
    /\ job' = NoJob
    /\ UNCHANGED <<envFile, platform, isDev, trayUp, trayConfig>>
    /\ UNCHANGED procVars
    /\ UNCHANGED extVars

-----------------------------------------------------------------------------
(* Inputs *)

TwoDigits(n) == <<DigitChars[(n \div 10) + 1], DigitChars[(n % 10) + 1]>>

\* the text "HH:MM" of a time input
HHMM(h, m) == TwoDigits(h) \o <<":">> \o TwoDigits(m)

Hours == {0, 9, 23}
Minutes == {0, 30}

\* instants the process is launched at, ms after the epoch
StartClocks ==
    { DayMs + 8 * HourMs, DayMs + 8 * HourMs - 1, DayMs + 9 * HourMs,
      DayMs + 23 * HourMs }

EmptyFile == [k \in Keys |-> <<>>]

\* a .env file as the setup script writes it
EnvFileOf(key, time, tz) ==
    [EmptyFile EXCEPT !["GOOGLE_API_KEY"] = key,
                      !["GOOGLE_API_URL"] = SetupDefaultApiUrl,
                      !["SCHEDULE_TIME"] = time,
                      !["TIMEZONE"] = tz]

\* the files, zones and instants the delay computation is explored on
WideFiles ==
    { EnvFileOf(KeyValid, time, tz)
      : time \in {<<>>} \cup {HHMM(h, m) : h \in Hours, m \in Minutes},
        tz \in {<<>>, TzUTC, TzTokyo} }

\* the files the scheduler is run on
InitFiles == { EnvFileOf(KeyValid, HHMM(9, 30), <<>>), EnvFileOf(<<>>, <<>>, <<>>) }

\* what the settings window submits
FormOf(key) ==
    [ GOOGLE_API_KEY |-> key, GOOGLE_API_URL |-> <<>>, IMAGE_PROMPT |-> PromptCity,
      ASPECT_RATIO |-> AspectSquare, IMAGE_SIZE |-> Size4K,
      SCHEDULE_TIME |-> HHMM(0, 30), TIMEZONE |-> TzUTC ]

Forms == { FormOf(KeyValid) }

\* the files and forms the refresh paths are run on
JobFiles == { EnvFileOf(key, <<>>, <<>>) : key \in {KeyValid, <<>>, PlaceholderKey} }

JobForms == { FormOf(key) : key \in {KeyValid, <<>>} }

\* nothing was saved yet
ImgIdle ==
    /\ dateNow = 0
    /\ imageFiles = [f \in {} |-> 0]
    /\ saves = 0

\* isNewerVersion was not called
NoCmp == [ newVersion |-> <<>>, currentVersion |-> <<>>, result |-> "none" ]

VerIdle == cmp = NoCmp

V_1_0_0 == <<"1", ".", "0", ".", "0">>

NoRemote == [ status |-> "none", hasTag |-> FALSE, tag |-> <<>>, assets |-> <<>> ]
NoInfo == [ version |-> <<>>, available |-> FALSE, downloadUrl |-> <<>> ]
NoReply == [ http |-> 0, success |-> "none", error |-> "", info |-> NoInfo ]
NoAttempt == [ id |-> 0, via |-> "none", url |-> <<>>, download |-> "none",
               installCalled |-> FALSE ]
NoPsRun == [ attempt |-> 0, archiveHasExe |-> FALSE, output |-> <<>>, exitCode |-> 0, backedUp |-> FALSE,
             replaced |-> FALSE, restarted |-> FALSE, zipRemoved |-> FALSE,
             targetFound |-> FALSE, steps |-> <<>> ]
NoLaunch == [ found |-> FALSE, scriptExit |-> 0 - 1, startedApp |-> FALSE ]

\* no front end of the update service was used
UpdIdle ==
    /\ ui = "tray"
    /\ phase = "running"
    /\ pkgVersion = V_1_0_0
    /\ remote = NoRemote
    /\ updateInfo = NoInfo
    /\ updLog = "none"
    /\ appDir = {}
    /\ restartTimer = FALSE
    /\ reply = NoReply
    /\ attempt = NoAttempt
    /\ psRun = NoPsRun
    /\ launch = NoLaunch

\* load-config was not called
NoLoaded == [k \in Keys |-> <<"?">>]

\* the keys of a file in which every line has a value
LinesOf(file) == {k \in Keys : file[k] # <<>>}

\* save-config was not called
NoSave == [ userWrite |-> "none", devWrite |-> "none", success |-> "none", error |-> "" ]

CfgIdle ==
    /\ loaded = NoLoaded
    /\ present = LinesOf(envFile)
    /\ devEnvFile = [k \in Keys |-> <<>>]
    /\ lastSave = NoSave

\* stop() was not called
ObsIdle == stopLog = [ calls |-> 0, threw |-> FALSE, onStopped |-> FALSE ]

\* no write is followed system call by system call
RaceIdle == disk = <<>> /\ ops = {}

ExtIdle == ImgIdle /\ VerIdle /\ UpdIdle /\ CfgIdle /\ ObsIdle /\ RaceIdle

ProcessInit ==
    /\ trayUp = FALSE
    /\ trayConfig = NoConfig
    /\ job = NoJob
    /\ lastRun = NoRun
    /\ config = NoConfig
    /\ scheduler = "none"
    /\ exitCode = 0 - 1
    /\ alive = FALSE
    /\ timers = {}
    /\ nextId = 1
    /\ intervalId = 0
    /\ inFlight = {}
    /\ errLog = {}
    /\ starts = 0
    /\ lastStart = NoStart
    /\ stopped = FALSE
    /\ stopCalled = FALSE

SchedInit ==
    /\ envFile \in InitFiles
    /\ sysTz = DefaultTimezone
    /\ clock = DayMs + 13 * HourMs
    /\ platform = "win32"
    /\ isDev = FALSE
    /\ ProcessInit
    /\ ExtIdle

SchedNext ==
    \/ MainSchedule
    \/ StartDailySchedule
    \/ \E t \in timers : TimeoutFire(t)
    \/ \E t \in timers : IntervalFire(t)
    \/ \E r \in inFlight, out \in Outcomes : RunOnceEnds(r, out)
    \/ Stop
    \/ Signal
    \/ \E form \in Forms : SaveConfig(form)

Spec == SchedInit /\ [][SchedNext]_vars

\* one Scheduler whose owner calls startDailySchedule and stop
StopInit ==
    /\ envFile = EnvFileOf(KeyValid, HHMM(9, 30), <<>>)
    /\ sysTz = DefaultTimezone
    /\ clock = DayMs + 13 * HourMs
    /\ platform = "win32"
    /\ isDev = FALSE
    /\ ProcessInit
    /\ ExtIdle

StopNext ==
    \/ MainSchedule
    \/ StartDailySchedule
    \/ \E t \in timers : TimeoutFire(t)
    \/ \E t \in timers : IntervalFire(t)
    \/ \E r \in inFlight, out \in Outcomes : RunOnceEnds(r, out)
    \/ StopCall

StopSpec == StopInit /\ [][StopNext]_vars

\* the delay computation on many files, zones and instants
StartInit ==
    /\ envFile \in WideFiles
    /\ sysTz \in Zones
    /\ clock \in StartClocks
    /\ platform = "win32"
    /\ isDev = FALSE
    /\ ProcessInit
    /\ ExtIdle

StartNext ==
    \/ MainSchedule
    \/ StartDailySchedule
    \/ \E t \in timers : TimeoutFire(t)

StartSpec == StartInit /\ [][StartNext]_vars

\* the refresh paths: the scheduler's catch-up and one-shot runs, `once`
\* processes, the tray
JobInit ==
    /\ envFile \in JobFiles
    /\ sysTz = DefaultTimezone
    /\ clock = DayMs + 13 * HourMs
    /\ platform \in {"win32", "darwin"}
    /\ isDev \in BOOLEAN
    /\ ProcessInit
    /\ ExtIdle

JobNext ==
    \/ MainSchedule
    \/ \E t \in timers : TimeoutFire(t)
    \/ \E r \in inFlight, out \in Outcomes : RunOnceEnds(r, out)
    \/ TrayReady
    \/ \E exeFound \in BOOLEAN : updateWallpaper(exeFound)
    \/ MainOnce
    \/ \E out \in Outcomes : JobEnds(out)
    \/ \E form \in JobForms : SaveConfig(form)

JobSpec == JobInit /\ [][JobNext]_vars

-----------------------------------------------------------------------------
(* ImageGenerator.saveBase64Image: the files of the images directory *)

\* saveBase64Image is called at most this many times
MaxSaves == 3
\* the saves happen within this many ms
MaxElapsedMs == 3

MimePng ==
    <<"i", "m", "a", "g", "e", "/", "p", "n", "g">>
MimeJpeg ==
    <<"i", "m", "a", "g", "e", "/", "j", "p", "e", "g">>
MimeWebp ==
    <<"i", "m", "a", "g", "e", "/", "w", "e", "b", "p">>
MimeGif ==
    <<"i", "m", "a", "g", "e", "/", "g", "i", "f">>
ExtJpg == <<"j", "p", "g">>
ExtJpeg == <<"j", "p", "e", "g">>
ExtPng == <<"p", "n", "g">>
ExtWebp == <<"w", "e", "b", "p">>
WallpaperPrefix ==
    <<"w", "a", "l", "l", "p", "a", "p", "e", "r", "-">>
\* the month the instants of the images lie in (instant 0 is its first midnight, UTC)
IsoMonth ==
    <<"2", "0", "2", "5", "-", "0", "1", "-">>

\* the MIME types a response carries
MimeTypes == {MimePng, MimeJpeg, MimeWebp, MimeGif}

\* part_001:286-288
ExtensionOf(mimeType) ==
    IF Includes(mimeType, ExtJpeg) \/ Includes(mimeType, ExtJpg) THEN ExtJpg
    ELSE IF Includes(mimeType, ExtPng) THEN ExtPng
    ELSE IF Includes(mimeType, ExtWebp) THEN ExtWebp
    ELSE ExtJpg

ThreeDigits(n) == <<DigitChars[(n \div 100) + 1]>> \o TwoDigits(n % 100)

\* new Date(t).toISOString(): YYYY-MM-DDTHH:mm:ss.sssZ
ToISOString(t) ==
    IsoMonth \o TwoDigits((t \div DayMs) + 1) \o <<"T">>
    \o TwoDigits((t % DayMs) \div HourMs) \o <<":">>
    \o TwoDigits((t % HourMs) \div MinuteMs) \o <<":">>
    \o TwoDigits((t % MinuteMs) \div 1000) \o <<".">>
    \o ThreeDigits(t % 1000) \o <<"Z">>

\* s.replace(/[:.]/g, '-')
ReplaceColonDot(s) ==
    [i \in 1..Len(s) |-> IF s[i] = ":" \/ s[i] = "." THEN "-" ELSE s[i]]

\* part_001:308-311, called at the instant t
generateFilename(extension, t) ==
    WallpaperPrefix \o ReplaceColonDot(ToISOString(t)) \o <<".">> \o extension

\* the first instant explored: 2 ms before 13:00:00.000 of the second day
ImgStart == DayMs + 13 * HourMs - 2

\* part_001:279-296: fs.writeFile creates the file or replaces its content
saveBase64Image(mimeType) ==
    /\ saves < MaxSaves
    /\ LET filename == generateFilename(ExtensionOf(mimeType), dateNow)
       IN  imageFiles' = [f \in DOMAIN imageFiles \cup {filename} |->
                             IF f = filename THEN saves + 1 ELSE imageFiles[f]]
    /\ saves' = saves + 1
    /\ UNCHANGED dateNow
    /\ UNCHANGED notImgVars

\* a millisecond passes
Tick ==
    /\ dateNow < ImgStart + MaxElapsedMs
    /\ dateNow' = dateNow + 1
    /\ UNCHANGED <<imageFiles, saves>>
    /\ UNCHANGED notImgVars

\* no process runs; the scheduler's and the tray's variables rest
Idle ==
    /\ envFile = EmptyFile
    /\ sysTz = DefaultTimezone
    /\ clock = 0
    /\ platform = "win32"
    /\ isDev = FALSE
    /\ ProcessInit

ImageInit ==
    /\ Idle
    /\ VerIdle
    /\ UpdIdle
    /\ CfgIdle
    /\ ObsIdle
    /\ RaceIdle
    /\ dateNow = ImgStart
    /\ imageFiles = [f \in {} |-> 0]
    /\ saves = 0

ImageNext ==
    \/ \E mimeType \in MimeTypes : saveBase64Image(mimeType)
    \/ Tick

ImageSpec == ImageInit /\ [][ImageNext]_vars

\* C11: a file of the images directory, once written, is never written again by
\* a later save: any two saves use distinct file names.
C11_ImageNeverOverwritten ==
    [][\A f \in DOMAIN imageFiles :
          f \in DOMAIN imageFiles' /\ imageFiles'[f] = imageFiles[f]]_vars

-----------------------------------------------------------------------------
(* UpdateService.isNewerVersion *)

\* a version has at most this many components
MaxParts == 3

\* the values of a component
PartValues == {0, 1, 2, 9, 10}

\* the decimal digits of n < 100
Decimal(n) == IF n < 10 THEN <<DigitChars[n + 1]>> ELSE TwoDigits(n)

RECURSIVE JoinParts(_)
\* the components written with '.' between them
JoinParts(parts) ==
    IF Len(parts) = 1 THEN Decimal(parts[1])
    ELSE Decimal(parts[1]) \o <<".">> \o JoinParts(Tail(parts))

PartLists(lens) == UNION {[1..n -> PartValues] : n \in lens}

\* tag names without the leading v
NewVersions == {JoinParts(parts) : parts \in PartLists(1..MaxParts)}

\* the version of package.json
CurrentVersions == {JoinParts(parts) : parts \in PartLists(2..3)}

\* Number(s) || 0: NaN (s is not a decimal numeral) counts as 0
NumberOrZero(s) ==
    IF \A i \in 1..Len(s) : \E d \in 1..10 : DigitChars[d] = s[i] THEN Number(s) ELSE 0

\* variant: components are compared as strings
NewerLoopLexical(newParts, currentParts, i, n) ==
    LET LessStr(a, b) ==
            \E k \in 1..Len(b) :
                /\ \A j \in 1..(k - 1) : j <= Len(a) /\ a[j] = b[j]
                /\ \/ k > Len(a)
                   \/ DigitValue(a[k]) < DigitValue(b[k])
        At(parts, k) == IF k <= Len(parts) THEN parts[k] ELSE <<"0">>
        first == {k \in i..n : At(newParts, k) # At(currentParts, k)}
    IN  /\ first # {}
        /\ LET k == CHOOSE x \in first : \A y \in first : x <= y
           IN  LessStr(At(currentParts, k), At(newParts, k))

RECURSIVE NewerLoop(_, _, _, _)
\* updateService.ts:89-95: the loop from index i (1-based) to n
NewerLoop(newParts, currentParts, i, n) ==
    IF i > n THEN FALSE
    ELSE LET newPart == IF i <= Len(newParts) THEN NumberOrZero(newParts[i]) ELSE 0
             currentPart == IF i <= Len(currentParts)
                            THEN NumberOrZero(currentParts[i]) ELSE 0
         IN  IF newPart > currentPart THEN TRUE
             ELSE IF newPart < currentPart THEN FALSE
             ELSE NewerLoop(newParts, currentParts, i + 1, n)

\* updateService.ts:85-98
isNewerVersion(newVersion, currentVersion) ==
    LET newParts == Split(newVersion, ".")
        currentParts == Split(currentVersion, ".")
        n == IF Len(newParts) > Len(currentParts) THEN Len(newParts)
             ELSE Len(currentParts)
    IN  NewerLoop(newParts, currentParts, 1, n)

VersionInit ==
    /\ Idle
    /\ ImgIdle
    /\ UpdIdle
    /\ CfgIdle
    /\ ObsIdle
    /\ RaceIdle
    /\ \E n \in NewVersions, c \in CurrentVersions :
           cmp = [ newVersion |-> n, currentVersion |-> c, result |-> "none" ]

\* the call returns
CompareVersions ==
    /\ cmp.result = "none"
    /\ cmp # NoCmp
    /\ cmp' = [cmp EXCEPT !.result =
                  IF isNewerVersion(cmp.newVersion, cmp.currentVersion)
                  THEN "true" ELSE "false"]
    /\ UNCHANGED notVerVars

VersionNext == CompareVersions

VersionSpec == VersionInit /\ [][VersionNext]_vars

\* the components of a version as numbers, padded with 0 to n components
PaddedParts(version, n) ==
    LET parts == Split(version, ".")
    IN  [i \in 1..n |-> IF i <= Len(parts) THEN Number(parts[i]) ELSE 0]

\* the reference comparison: the first differing component of new is greater
RefNewer(newVersion, currentVersion) ==
    LET a == PaddedParts(newVersion, MaxParts)
        b == PaddedParts(currentVersion, MaxParts)
    IN  \E i \in 1..MaxParts : a[i] > b[i] /\ \A j \in 1..(i - 1) : a[j] = b[j]

V_1_2_0 == <<"1", ".", "2", ".", "0">>
V_1_10_0 == <<"1", ".", "1", "0", ".", "0">>
V_2_0_0 == <<"2", ".", "0", ".", "0">>
V_1_9_9 == <<"1", ".", "9", ".", "9">>
V_1_0 == <<"1", ".", "0">>
\* C12: isNewerVersion(new, current) is the result of the numeric,
\* component-by-component comparison with missing trailing components as 0;
\* ("1.2.0","1.10.0") is false, ("2.0.0","1.9.9") true, ("1.0","1.0.0") false.
C12_IsNewerIsNumericComparison ==
    cmp.result # "none" =>
        /\ cmp.result = "true" <=> RefNewer(cmp.newVersion, cmp.currentVersion)
        /\ (cmp.newVersion = V_1_2_0 /\ cmp.currentVersion = V_1_10_0)
               => cmp.result = "false"
        /\ (cmp.newVersion = V_2_0_0 /\ cmp.currentVersion = V_1_9_9)
               => cmp.result = "true"
        /\ (cmp.newVersion = V_1_0 /\ cmp.currentVersion = V_1_0_0)
               => cmp.result = "false"

\* 1.2.0 against 1.10.0 was compared
C12_Witness ==
    /\ cmp.result = "false"
    /\ cmp.newVersion = V_1_2_0
    /\ cmp.currentVersion = V_1_10_0

-----------------------------------------------------------------------------
(* UpdateService.checkForUpdates and the front ends of the update *)

\* update attempts explored
MaxAttempts == 2

V_1_1_0 == <<"1", ".", "1", ".", "0">>
TagV110 == <<"v">> \o V_1_1_0
TagV100 == <<"v">> \o V_1_0_0

MarkerWindows ==
    <<"w", "i", "n", "d", "o", "w", "s">>
ExtZip == <<".", "z", "i", "p">>
NameWindowsZip ==
    <<"a", "p", "p", "-", "w", "i", "n", "d", "o", "w", "s", ".", "z",
    "i", "p">>
NameWinX64Zip ==
    <<"w", "i", "n", "d", "o", "w", "s", "-", "x", "6", "4", ".", "z",
    "i", "p">>
NameLinuxZip ==
    <<"a", "p", "p", "-", "l", "i", "n", "u", "x", ".", "z", "i", "p">>
NameWindowsExe ==
    <<"a", "p", "p", "-", "w", "i", "n", "d", "o", "w", "s", ".", "e",
    "x", "e">>
UrlA == <<"u", "a">>
UrlB == <<"u", "b">>
UrlC == <<"u", "c">>

\* assets of a release: name and browser_download_url
AssetWindowsZip == [ name |-> NameWindowsZip, url |-> UrlA ]
AssetWinX64Zip == [ name |-> NameWinX64Zip, url |-> UrlB ]
AssetLinuxZip == [ name |-> NameLinuxZip, url |-> UrlC ]
AssetWindowsExe == [ name |-> NameWindowsExe, url |-> UrlC ]

\* the asset lists of the releases explored
AssetLists ==
    { <<>>,
      <<AssetLinuxZip>>,
      <<AssetWindowsExe, AssetLinuxZip>>,
      <<AssetLinuxZip, AssetWindowsZip>>,
      <<AssetWindowsZip, AssetWinX64Zip>>,
      <<AssetWindowsExe, AssetWinX64Zip, AssetWindowsZip>> }

\* answers of GET .../releases/latest: a release, with or without tag_name,
\* a 404, no answer within 10 s, or another transport failure
Remotes ==
    { [ status |-> "200", hasTag |-> TRUE, tag |-> t, assets |-> a ] :
          t \in {TagV110, V_1_1_0, TagV100}, a \in AssetLists }
    \cup { [ status |-> "200", hasTag |-> FALSE, tag |-> <<>>, assets |-> a ] :
          a \in {<<>>, <<AssetWindowsZip>>} }
    \cup { [ status |-> st, hasTag |-> FALSE, tag |-> <<>>, assets |-> <<>> ] :
          st \in {"404", "timeout", "network"} }

\* s.endsWith(suffix)
EndsWith(s, suffix) ==
    /\ Len(s) >= Len(suffix)
    /\ SubSeq(s, Len(s) - Len(suffix) + 1, Len(s)) = suffix

\* tag_name.replace(/^v/, '')
StripV(tag) == IF tag # <<>> /\ Head(tag) = "v" THEN Tail(tag) ELSE tag

\* variant: the last matching asset is taken
WindowsAssetUrlLast(assets) ==
    LET hits == {i \in 1..Len(assets) :
                    /\ Includes(assets[i].name, MarkerWindows)
                    /\ EndsWith(assets[i].name, ExtZip)}
    IN  IF hits = {} THEN <<>>
        ELSE assets[CHOOSE i \in hits : \A j \in hits : i >= j].url

\* updateService.ts:50-52; windowsAsset?.browser_download_url || ''
WindowsAssetUrl(assets) ==
    LET hits == {i \in 1..Len(assets) :
                    /\ Includes(assets[i].name, MarkerWindows)
                    /\ EndsWith(assets[i].name, ExtZip)}
    IN  IF hits = {} THEN <<>>
        ELSE assets[CHOOSE i \in hits : \A j \in hits : i <= j].url

\* updateService.ts:65-69 and 73-77
FailureInfo(currentVersion) ==
    [ version |-> currentVersion, available |-> FALSE, downloadUrl |-> <<>> ]

\* updateService.ts:33-60: the try block; error is what it throws
TryCheck(r, currentVersion) ==
    IF r.status # "200" THEN [ error |-> r.status, info |-> NoInfo ]
    ELSE IF ~r.hasTag THEN [ error |-> "TypeError", info |-> NoInfo ]
    ELSE LET latestVersion == StripV(r.tag)
         IN  [ error |-> "none",
               info |-> [ version |-> latestVersion,
                          available |-> isNewerVersion(latestVersion, currentVersion),
                          downloadUrl |-> WindowsAssetUrl(r.assets),
                          releaseNotes |-> "",
                          publishedAt |-> "" ] ]

\* variant: the catch block handles the errors of axios only
checkForUpdatesAxiosOnly(r, currentVersion) ==
    LET t == TryCheck(r, currentVersion)
    IN  IF t.error = "none"
        THEN [ threw |-> FALSE, info |-> t.info, log |-> "Latest version" ]
        ELSE IF t.error = "TypeError"
        THEN [ threw |-> TRUE, info |-> NoInfo, log |-> "none" ]
        ELSE [ threw |-> FALSE, info |-> FailureInfo(currentVersion),
               log |-> "Update check failed" ]

\* updateService.ts:32-79
checkForUpdates(r, currentVersion) ==
    LET t == TryCheck(r, currentVersion)
    IN  IF t.error = "none"
        THEN [ threw |-> FALSE, info |-> t.info, log |-> "Latest version" ]
        ELSE IF t.error = "404"
        THEN [ threw |-> FALSE, info |-> FailureInfo(currentVersion),
               log |-> "No releases found or repository does not exist" ]
        ELSE [ threw |-> FALSE, info |-> FailureInfo(currentVersion),
               log |-> "Update check failed" ]

\* outcomes of the GET of the archive and of the stream to update.zip
Downloads == {"ok", "failed", "partial"}

\* variant: the failure is logged and not thrown
downloadUpdateSwallows(out) ==
    [ threw |-> FALSE, zip |-> out # "failed",
      message |-> "" ]

\* updateService.ts:103-125
downloadUpdate(out) ==
    [ threw |-> out # "ok", zip |-> out # "failed",
      message |-> IF out = "ok" THEN "" ELSE "timeout of 300000ms exceeded" ]

\* updateService.ts:132-150: fs.writeFile of update.ps1 succeeds or fails
installUpdate(written) ==
    [ threw |-> ~written, script |-> written,
      message |-> IF written THEN "" ELSE "EACCES: permission denied" ]

\* downloadUpdate and then installUpdate, as both front ends call them;
\* the result tells what the handler does next
DownloadAndInstall(out, written) ==
    LET dl == downloadUpdate(out)
        inst == installUpdate(written)
    IN  IF dl.threw
        THEN [ ok |-> FALSE, message |-> dl.message, installCalled |-> FALSE,
               files |-> IF dl.zip THEN {"update.zip"} ELSE {} ]
        ELSE [ ok |-> ~inst.threw, message |-> inst.message, installCalled |-> TRUE,
               files |-> {"update.zip"}
                         \cup IF inst.script THEN {"update.ps1"} ELSE {} ]

\* logger.ts:1026-1070 and 1402-1413: the tray's update check
TrayCheckForUpdates(r) ==
    /\ ui = "tray" /\ phase = "running"
    /\ IF isDev
       THEN /\ updateInfo' = FailureInfo(pkgVersion)
            /\ UNCHANGED <<remote, updLog>>
       ELSE \E c \in {checkForUpdates(r, pkgVersion)} :
                /\ remote' = r
                /\ updLog' = c.log
                /\ updateInfo' = IF c.threw THEN FailureInfo(pkgVersion) ELSE c.info
    /\ reply' = [ http |-> 0, success |-> "none", error |-> "", info |-> updateInfo' ]
    /\ UNCHANGED <<ui, phase, pkgVersion, appDir, restartTimer, attempt, psRun, launch>>
    /\ UNCHANGED notUpdVars

\* part_000:771-781: what handleCheckUpdate sends when checkForUpdates ended as c
CheckReply(c, currentVersion) ==
    IF c.threw
    THEN [ http |-> 500, success |-> "none", error |-> "Failed to check for updates",
           info |-> FailureInfo(currentVersion) ]
    ELSE [ http |-> 200, success |-> "none", error |-> "", info |-> c.info ]

\* part_000:769-782, and the page's checkForUpdates (part_000:678-716)
HandleCheckUpdate(r) ==
    /\ ui = "web" /\ phase = "running"
    /\ \E c \in {checkForUpdates(r, pkgVersion)} :
           /\ remote' = r
           /\ updLog' = c.log
           /\ reply' = CheckReply(c, pkgVersion)
           /\ updateInfo' = reply'.info
    /\ UNCHANGED <<ui, phase, pkgVersion, appDir, restartTimer, attempt, psRun, launch>>
    /\ UNCHANGED notUpdVars

\* logger.ts:1419-1446
InstallUpdateIpc(r, out, written) ==
    /\ ui = "tray" /\ phase = "running"
    /\ attempt.id < MaxAttempts
    /\ \E c \in {checkForUpdates(r, pkgVersion)},
          res \in {DownloadAndInstall(out, written)} :
       LET go == ~c.threw /\ c.info.available /\ c.info.downloadUrl # <<>>
       IN  /\ remote' = r
           /\ updLog' = c.log
           /\ attempt' = [ id |-> attempt.id + 1, via |-> "ipc",
                           url |-> IF c.threw THEN <<>> ELSE c.info.downloadUrl,
                           download |-> IF go THEN out ELSE "none",
                           installCalled |-> go /\ res.installCalled ]
           /\ appDir' = IF go THEN appDir \cup res.files ELSE appDir
           /\ restartTimer' = (restartTimer \/ (go /\ res.ok))
           /\ reply' =
                IF c.threw
                THEN [ http |-> 0, success |-> "false", error |-> "Unknown error",
                       info |-> NoInfo ]
                ELSE IF ~go
                THEN [ http |-> 0, success |-> "false",
                       error |-> "No update available", info |-> NoInfo ]
                ELSE IF res.ok
                THEN [ http |-> 0, success |-> "true", error |-> "", info |-> NoInfo ]
                ELSE [ http |-> 0, success |-> "false", error |-> res.message,
                       info |-> NoInfo ]
    /\ UNCHANGED <<ui, phase, pkgVersion, updateInfo, psRun, launch>>
    /\ UNCHANGED notUpdVars

\* part_000:787-819, called with the downloadUrl of the request body; via tells
\* who sent the request: the page ("page") or another client ("post")
HandleUpdate(via, downloadUrl, out, written) ==
    /\ ui = "web" /\ phase = "running"
    /\ attempt.id < MaxAttempts
    /\ \E res \in {DownloadAndInstall(out, written)} :
       LET go == downloadUrl # <<>>
       IN  /\ attempt' = [ id |-> attempt.id + 1, via |-> via, url |-> downloadUrl,
                           download |-> IF go THEN out ELSE "none",
                           installCalled |-> go /\ res.installCalled ]
           /\ appDir' = IF go THEN appDir \cup res.files ELSE appDir
           /\ reply' =
                IF ~go
                THEN [ http |-> 400, success |-> "false",
                       error |-> "Download URL required", info |-> NoInfo ]
                ELSE IF res.ok
                THEN [ http |-> 200, success |-> "true", error |-> "", info |-> NoInfo ]
                ELSE [ http |-> 500, success |-> "false", error |-> res.message,
                       info |-> NoInfo ]
    /\ UNCHANGED <<ui, phase, pkgVersion, remote, updateInfo, updLog, restartTimer,
                   psRun, launch>>
    /\ UNCHANGED notUpdVars

\* part_000:719-757: the page's Download & Update button
StartUpdate(out, written) ==
    /\ updateInfo.available
    /\ HandleUpdate("page", updateInfo.downloadUrl, out, written)

\* logger.ts:1436-1440: app.relaunch(); app.quit()
RestartTimerFires ==
    /\ restartTimer
    /\ phase = "running"
    /\ restartTimer' = FALSE
    /\ phase' = "exited"
    /\ UNCHANGED <<ui, pkgVersion, remote, updateInfo, updLog, appDir, reply, attempt,
                   psRun, launch>>
    /\ UNCHANGED notUpdVars

ScriptMessages ==
    [ start |-> "Starting update process...",
      extract |-> "Extracting update...",
      replace |-> "Replacing executable...",
      complete |-> "Update complete! Restarting application...",
      done |-> "Update successful!",
      missing |-> "Error: Could not find screensaver.exe in update package" ]

\* updateService.ts:183-187: the backup is made if Test-Path $targetExe holds
BackupStep(targetThere) == IF targetThere THEN <<"backup">> ELSE <<>>

\* variant: the old executable is backed up before the archive is searched
RunUpdateScriptBackupFirst(zipThere, hasExe, targetThere) ==
    IF zipThere /\ hasExe
    THEN [ output |-> <<ScriptMessages.start, ScriptMessages.extract,
                        ScriptMessages.replace, ScriptMessages.complete,
                        ScriptMessages.done>>,
           exitCode |-> 0, backedUp |-> targetThere, replaced |-> TRUE,
           restarted |-> TRUE, zipRemoved |-> TRUE, targetFound |-> targetThere,
           steps |-> BackupStep(targetThere)
                     \o <<"wait", "resetTemp", "extract", "locate", "copy", "pause",
                          "restart", "removeTemp", "removeZip">> ]
    ELSE [ output |-> <<ScriptMessages.start, ScriptMessages.extract,
                        ScriptMessages.missing>>,
           exitCode |-> 1, backedUp |-> targetThere, replaced |-> FALSE,
           restarted |-> FALSE, zipRemoved |-> FALSE, targetFound |-> targetThere,
           steps |-> BackupStep(targetThere)
                     \o <<"wait", "resetTemp", "extract", "locate">> ]

\* variant: the new executable is copied into place before the old one is
\* backed up
RunUpdateScriptCopyFirst(zipThere, hasExe, targetThere) ==
    IF zipThere /\ hasExe
    THEN [ output |-> <<ScriptMessages.start, ScriptMessages.extract,
                        ScriptMessages.replace, ScriptMessages.complete,
                        ScriptMessages.done>>,
           exitCode |-> 0, backedUp |-> targetThere, replaced |-> TRUE,
           restarted |-> TRUE, zipRemoved |-> TRUE, targetFound |-> targetThere,
           steps |-> <<"wait", "resetTemp", "extract", "locate", "copy">>
                     \o BackupStep(targetThere)
                     \o <<"pause", "restart", "removeTemp", "removeZip">> ]
    ELSE [ output |-> <<ScriptMessages.start, ScriptMessages.extract,
                        ScriptMessages.missing>>,
           exitCode |-> 1, backedUp |-> FALSE, replaced |-> FALSE,
           restarted |-> FALSE, zipRemoved |-> FALSE, targetFound |-> FALSE,
           steps |-> <<"wait", "resetTemp", "extract", "locate">> ]

\* updateService.ts:160-210: a run of the generated script. The archive at
\* $zipPath exists or not and holds a screensaver.exe or not; the installed
\* executable exists or not. `steps` are the commands in the order they are
\* executed, targetFound what Test-Path $targetExe returned (FALSE when it is
\* not reached).
RunUpdateScript(zipThere, hasExe, targetThere) ==
    IF zipThere /\ hasExe
    THEN [ output |-> <<ScriptMessages.start, ScriptMessages.extract,
                        ScriptMessages.replace, ScriptMessages.complete,
                        ScriptMessages.done>>,
           exitCode |-> 0, backedUp |-> targetThere, replaced |-> TRUE,
           restarted |-> TRUE, zipRemoved |-> TRUE, targetFound |-> targetThere,
           steps |-> <<"wait", "resetTemp", "extract", "locate">>
                     \o BackupStep(targetThere)
                     \o <<"copy", "pause", "restart", "removeTemp", "removeZip">> ]
    ELSE [ output |-> <<ScriptMessages.start, ScriptMessages.extract,
                        ScriptMessages.missing>>,
           exitCode |-> 1, backedUp |-> FALSE, replaced |-> FALSE,
           restarted |-> FALSE, zipRemoved |-> FALSE, targetFound |-> FALSE,
           steps |-> <<"wait", "resetTemp", "extract", "locate">> ]

\* variant: the launcher starts the main application after every script run
LauncherStartsAppAlways(found, scriptExit) == TRUE

\* part_000:1010-1047: the launcher reaches exec(mainExe) unless the script
\* was found and exited with code 0 (process.exit(0) at 1022)
LauncherStartsApp(found, scriptExit) == ~found \/ scriptExit # 0

\* part_000:1004-1048: the launcher, started when the application is started
\* again after app.quit(). It runs update.ps1 when the file exists; the
\* application runs again afterwards, started by the script or by the launcher.
LauncherMain(hasExe, targetThere) ==
    /\ phase = "exited"
    /\ phase' = "running"
    /\ IF "update.ps1" \in appDir
       THEN LET run == RunUpdateScript("update.zip" \in appDir, hasExe, targetThere)
            IN  /\ psRun' = [ attempt |-> attempt.id,
                              archiveHasExe |-> ("update.zip" \in appDir /\ hasExe),
                              output |-> run.output,
                              exitCode |-> run.exitCode, backedUp |-> run.backedUp,
                              replaced |-> run.replaced, restarted |-> run.restarted,
                              zipRemoved |-> run.zipRemoved,
                              targetFound |-> run.targetFound, steps |-> run.steps ]
                /\ appDir' = IF run.zipRemoved THEN appDir \ {"update.zip"} ELSE appDir
                /\ launch' = [ found |-> TRUE, scriptExit |-> run.exitCode,
                               startedApp |-> LauncherStartsApp(TRUE, run.exitCode) ]
       ELSE /\ launch' = [ found |-> FALSE, scriptExit |-> 0 - 1,
                           startedApp |-> LauncherStartsApp(FALSE, 0 - 1) ]
            /\ UNCHANGED <<psRun, appDir>>
    /\ UNCHANGED <<ui, pkgVersion, remote, updateInfo, updLog, restartTimer, reply,
                   attempt>>
    /\ UNCHANGED notUpdVars

\* logger.ts:185-187: the menu item Quit of the tray application
QuitApp ==
    /\ ui = "tray"
    /\ phase = "running"
    /\ phase' = "exited"
    /\ restartTimer' = FALSE
    /\ UNCHANGED <<pkgVersion, ui, remote, updateInfo, updLog, appDir, reply, attempt,
                   psRun, launch>>
    /\ UNCHANGED notUpdVars

\* the download references a request body carries
BodyUrls == {<<>>, UrlA}

UpdateInit ==
    /\ envFile = EmptyFile
    /\ sysTz = DefaultTimezone
    /\ clock = 0
    /\ platform = "win32"
    /\ isDev \in BOOLEAN
    /\ ProcessInit
    /\ ImgIdle
    /\ VerIdle
    /\ CfgIdle
    /\ ObsIdle
    /\ RaceIdle
    /\ ui \in {"tray", "web"}
    /\ phase = "running"
    /\ pkgVersion = V_1_0_0
    /\ remote = NoRemote
    /\ updateInfo = NoInfo
    /\ updLog = "none"
    /\ appDir = {}
    /\ restartTimer = FALSE
    /\ reply = NoReply
    /\ attempt = NoAttempt
    /\ psRun = NoPsRun
    /\ launch = NoLaunch

UpdateNext ==
    \/ \E r \in Remotes : TrayCheckForUpdates(r)
    \/ \E r \in Remotes : HandleCheckUpdate(r)
    \/ \E r \in Remotes, out \in Downloads, written \in BOOLEAN :
          InstallUpdateIpc(r, out, written)
    \/ \E downloadUrl \in BodyUrls, out \in Downloads, written \in BOOLEAN :
          HandleUpdate("post", downloadUrl, out, written)
    \/ \E out \in Downloads, written \in BOOLEAN : StartUpdate(out, written)
    \/ RestartTimerFires
    \/ \E hasExe \in BOOLEAN, targetThere \in BOOLEAN : LauncherMain(hasExe, targetThere)

UpdateSpec == UpdateInit /\ [][UpdateNext]_vars

\* the tray application installs updates, is quit and is started again
\* through the launcher
LauncherNext ==
    \/ \E r \in Remotes, out \in Downloads, written \in BOOLEAN :
          InstallUpdateIpc(r, out, written)
    \/ RestartTimerFires
    \/ QuitApp
    \/ \E hasExe \in BOOLEAN, targetThere \in BOOLEAN : LauncherMain(hasExe, targetThere)

LauncherInit == UpdateInit /\ ui = "tray"

LauncherSpec == LauncherInit /\ [][LauncherNext]_vars

\* the timer of install-update fires and the application that was relaunched
\* starts: neither waits forever
UpdateFairSpec ==
    /\ UpdateSpec
    /\ WF_vars(RestartTimerFires)
    /\ WF_vars(\E hasExe \in BOOLEAN, targetThere \in BOOLEAN :
                  LauncherMain(hasExe, targetThere))

\* the reply on the state is one of handleCheckUpdate
IsCheckReply == reply.success = "none" /\ reply.http # 0

\* the release feed did not deliver a release with a tag
FeedFailed(r) == r.status # "200" \/ ~r.hasTag

\* C13: checkForUpdates never throws: after an HTTP 404, a timeout, another
\* network failure or a release without tag_name the caller holds an UpdateInfo,
\* which is {version: currentVersion, available: false, downloadUrl: ''}.
C13_CheckNeverThrows ==
    IsCheckReply =>
        /\ reply.http = 200
        /\ reply.error = ""
        /\ FeedFailed(remote) => reply.info = FailureInfo(pkgVersion)

\* a release without tag_name was answered
C13_Witness ==
    /\ IsCheckReply
    /\ remote.status = "200"
    /\ ~remote.hasTag

Remote404 == [ status |-> "404", hasTag |-> FALSE, tag |-> <<>>, assets |-> <<>> ]

\* C14: the answer to a check that timed out or failed in transport differs from
\* the answer to a check that met a 404.
C14_CheckFailedDistinctFromNotFound ==
    (IsCheckReply /\ remote.status \in {"timeout", "network"}) =>
        reply # CheckReply(checkForUpdates(Remote404, pkgVersion), pkgVersion)

\* the asset at position i is a Windows archive
IsWindowsZip(asset) ==
    /\ \E k \in 0..(Len(asset.name) - 7) :
          SubSeq(asset.name, k + 1, k + 7) = MarkerWindows
    /\ Len(asset.name) >= 4
    /\ \A k \in 1..4 : asset.name[Len(asset.name) - 4 + k] = ExtZip[k]

\* url is the download reference of the first Windows archive of the assets
FirstWindowsZipUrl(assets, url) ==
    IF \A i \in 1..Len(assets) : ~IsWindowsZip(assets[i]) THEN url = <<>>
    ELSE \E i \in 1..Len(assets) :
            /\ IsWindowsZip(assets[i])
            /\ \A j \in 1..(i - 1) : ~IsWindowsZip(assets[j])
            /\ url = assets[i].url

\* C15: the downloadUrl of a release is the download reference of its first asset
\* whose name contains 'windows' and ends with '.zip', and '' without such an
\* asset; an update attempt whose downloadUrl is '' downloads nothing, stages
\* no script and schedules no restart, also when an update is available.
C15_NoInstallWithoutDownloadUrl ==
    [][/\ (IsCheckReply /\ ~FeedFailed(remote))' =>
             FirstWindowsZipUrl(remote'.assets, reply'.info.downloadUrl)
       /\ (attempt'.id # attempt.id /\ attempt'.url = <<>>) =>
             /\ attempt'.download = "none"
             /\ ~attempt'.installCalled
             /\ appDir' = appDir
             /\ restartTimer' = restartTimer
             /\ reply'.success = "false"]_vars

\* the tray was asked to install a newer release that has no Windows archive
C15_Witness ==
    /\ attempt.via = "ipc"
    /\ attempt.url = <<>>
    /\ ~FeedFailed(remote)
    /\ checkForUpdates(remote, pkgVersion).info.available
    /\ remote.assets # <<>>

\* C16: when downloadUpdate fails the attempt ends: installUpdate is not called,
\* update.ps1 is not written, no restart is scheduled, and the front end
\* answers success=false with an error message.
C16_DownloadFailureIsFatal ==
    [][(attempt'.id # attempt.id /\ attempt'.download \in {"failed", "partial"}) =>
          /\ ~attempt'.installCalled
          /\ ("update.ps1" \in appDir') = ("update.ps1" \in appDir)
          /\ restartTimer' = restartTimer
          /\ phase' = phase
          /\ reply'.success = "false"
          /\ reply'.error # ""]_vars

\* a download failed and the front end answered with the failure
C16_Witness ==
    /\ attempt.download = "failed"
    /\ attempt.via \in {"ipc", "page"}
    /\ reply.success = "false"

\* the steps of the script the order is stated for
ClaimedStep(x) ==
    x \in {"wait", "extract", "locate", "backup", "copy", "restart", "removeTemp",
           "removeZip"}

C30_LauncherRunsScriptEveryStart ==
    [][/\ "update.ps1" \in appDir => "update.ps1" \in appDir'
       /\ (phase = "exited" /\ phase' # "exited") =>
             /\ launch'.found = ("update.ps1" \in appDir)
             /\ launch'.found =>
                   /\ psRun'.output # <<>>
                   /\ psRun'.exitCode = launch'.scriptExit
             /\ launch'.startedApp = (~launch'.found \/ launch'.scriptExit # 0)]_vars

\* a later launcher start ran the script again after an earlier run had
\* removed the archive; the script failed and the launcher started the
\* application
C30_Witness ==
    /\ launch.found /\ launch.scriptExit = 1 /\ launch.startedApp
    /\ "update.ps1" \in appDir
    /\ "update.zip" \notin appDir
    /\ phase = "running"

\* C17: once an update attempt has staged update.ps1 and answered success, the
\* script is run (and the process that staged it ends before).
C17_StagedScriptIsApplied ==
    \A n \in 1..MaxAttempts :
        (attempt.id = n /\ reply.success = "true") ~> (psRun.attempt >= n)

\* C18: a run of update.ps1 on an archive without screensaver.exe prints the
\* error, exits with a code other than 0, and neither backs up nor replaces
\* the installed executable nor starts the application.
C18_MissingExeFailsLoudly ==
    (psRun.attempt > 0 /\ ~psRun.archiveHasExe) =>
        /\ psRun.exitCode # 0
        /\ psRun.output[Len(psRun.output)] = ScriptMessages.missing
        /\ ~psRun.backedUp
        /\ ~psRun.replaced
        /\ ~psRun.restarted

\* the script ran on an archive without screensaver.exe
C18_Witness ==
    /\ psRun.attempt > 0
    /\ ~psRun.archiveHasExe
    /\ "update.zip" \in appDir

-----------------------------------------------------------------------------
(* The settings window: load-config and save-config; config.ts at module load *)

PromptTwoWords ==
    <<"a", " ", "b">>
PromptHash ==
    <<"a", "#", "b">>
PromptEquals ==
    <<"a", "=", "b">>
PromptQuoted ==
    <<"a", " ", "\"", "b", "\"">>
PromptSaid ==
    <<"a", "\"", "b", "\"">>
UrlApiGoogle ==
    <<"h", "t", "t", "p", "s", ":", "/", "/", "a", "p", "i", ".", "g",
    "o", "o", "g", "l", "e", ".", "c", "o", "m", "/", "v", "1", "/",
    "i", "m", "a", "g", "e", "s">>
UrlFlashImage25 ==
    <<"h", "t", "t", "p", "s", ":", "/", "/", "g", "e", "n", "e", "r",
    "a", "t", "i", "v", "e", "l", "a", "n", "g", "u", "a", "g", "e",
    ".", "g", "o", "o", "g", "l", "e", "a", "p", "i", "s", ".", "c",
    "o", "m", "/", "v", "1", "b", "e", "t", "a", "/", "m", "o", "d",
    "e", "l", "s", "/", "g", "e", "m", "i", "n", "i", "-", "2", ".",
    "5", "-", "f", "l", "a", "s", "h", "-", "i", "m", "a", "g", "e",
    ":", "g", "e", "n", "e", "r", "a", "t", "e", "C", "o", "n", "t",
    "e", "n", "t">>
UrlGemini3Pro ==
    <<"h", "t", "t", "p", "s", ":", "/", "/", "g", "e", "n", "e", "r",
    "a", "t", "i", "v", "e", "l", "a", "n", "g", "u", "a", "g", "e",
    ".", "g", "o", "o", "g", "l", "e", "a", "p", "i", "s", ".", "c",
    "o", "m", "/", "v", "1", "b", "e", "t", "a", "/", "m", "o", "d",
    "e", "l", "s", "/", "g", "e", "m", "i", "n", "i", "-", "3", "-",
    "p", "r", "o", ":", "g", "e", "n", "e", "r", "a", "t", "e", "C",
    "o", "n", "t", "e", "n", "t">>

\* IMAGE_PROMPT values typed into the settings window
CfgPrompts == {<<>>, PromptCity, PromptTwoWords, PromptHash, PromptEquals,
               PromptQuoted, PromptSaid}

\* GOOGLE_API_URL values typed into the settings window or found in a file
CfgUrls == {<<>>, CanonicalApiUrl, SetupDefaultApiUrl, UrlApiGoogle, UrlFlashImage25,
            UrlGemini3Pro}

\* what the settings window submits to save-config
CfgForms ==
    { [FormOf(KeyValid) EXCEPT !["IMAGE_PROMPT"] = prompt, !["GOOGLE_API_URL"] = url]
      : prompt \in CfgPrompts, url \in CfgUrls }

\* the files found at the first start of the settings window
CfgFiles ==
    { [EmptyFile EXCEPT !["GOOGLE_API_KEY"] = KeyValid, !["GOOGLE_API_URL"] = url]
      : url \in CfgUrls }

\* logger.ts:1254-1259: config[key] of the line KEY=text
LoadConfigValue(text) == Trim(text)

\* logger.ts:1251-1261: the lines of the file as load-config reads them
ParsedConfig(file) == [k \in Keys |-> LoadConfigValue(file[k])]

\* logger.ts:1263-1290: the configuration load-config returns
LoadConfigResult(file) ==
    LET cfg == ParsedConfig(file)
        url == cfg["GOOGLE_API_URL"]
    IN  [cfg EXCEPT !["GOOGLE_API_URL"] =
            IF url # <<>> /\ IsDeprecatedUrl(url) THEN CanonicalApiUrl
            ELSE IF url = <<>> THEN CanonicalApiUrl
            ELSE url]

\* logger.ts:1270-1280: the file after load-config; the corrected
\* configuration is written back as KEY=value lines
LoadConfigWriteBack(file) ==
    LET cfg == ParsedConfig(file)
        url == cfg["GOOGLE_API_URL"]
    IN  IF url # <<>> /\ IsDeprecatedUrl(url)
        THEN [cfg EXCEPT !["GOOGLE_API_URL"] = CanonicalApiUrl]
        ELSE file

\* logger.ts:1242-1294
LoadConfigIpc ==
    /\ loaded' = LoadConfigResult(envFile)
    /\ envFile' = LoadConfigWriteBack(envFile)
    /\ UNCHANGED <<present, devEnvFile, lastSave>>
    /\ UNCHANGED <<config, scheduler, exitCode, sysTz, clock, alive, timers,
                   nextId, intervalId, inFlight, errLog, starts, lastStart, stopped,
                   stopCalled>>
    /\ UNCHANGED jobVars
    /\ UNCHANGED <<imgVars, verVars, updVars, obsVars, raceVars>>

\* config.ts:143-202: a process imports the module
ImportConfig ==
    /\ config' = LoadConfig(envFile)
    /\ envFile' = WriteBackApiUrl(envFile)
    /\ UNCHANGED <<scheduler, exitCode, sysTz, clock, alive, timers,
                   nextId, intervalId, inFlight, errLog, starts, lastStart, stopped,
                   stopCalled>>
    /\ UNCHANGED jobVars
    /\ UNCHANGED extVars

ConfigInit ==
    /\ envFile \in CfgFiles
    /\ sysTz = DefaultTimezone
    /\ clock = 0
    /\ platform = "win32"
    /\ isDev = FALSE
    /\ ProcessInit
    /\ ExtIdle

ConfigNext ==
    \/ \E form \in CfgForms : SaveConfig(form)
    \/ LoadConfigIpc
    \/ ImportConfig

ConfigSpec == ConfigInit /\ [][ConfigNext]_vars

\* C19: load-config returns, for every key, the value that was passed to the
\* save-config that wrote the file, also for values with spaces, '#', '=' or
\* double quotes.
C19_SaveLoadRoundTrip ==
    [][loaded' # loaded =>
          \A form \in CfgForms :
              envFile = SaveConfigContent(form) =>
                  \A k \in Keys \ {"GOOGLE_API_URL"} : loaded'[k] = form[k]]_vars

\* url matches a marker of one of the three deprecated-endpoint tests
MatchesDeprecatedMarker(url) ==
    \/ Includes(url, MarkerNanoBanana)
    \/ Includes(url, MarkerApiGoogle)
    \/ Includes(url, MarkerExp)
    \/ Includes(url, MarkerFlashImage25)
    \/ (Includes(url, MarkerGemini3Pro) /\ ~Includes(url, MarkerImage))

-----------------------------------------------------------------------------
(* The .env file as text, and writes that overlap *)

\* at most this many fs.writeFile calls are followed
MaxRaceOps == 3

\* the characters of the key names
KeyText ==
    [ GOOGLE_API_KEY |->
          <<"G", "O", "O", "G", "L", "E", "_", "A", "P", "I", "_", "K",
          "E", "Y">>,
      GOOGLE_API_URL |->
          <<"G", "O", "O", "G", "L", "E", "_", "A", "P", "I", "_", "U",
          "R", "L">>,
      IMAGE_PROMPT |->
          <<"I", "M", "A", "G", "E", "_", "P", "R", "O", "M", "P", "T">>,
      ASPECT_RATIO |->
          <<"A", "S", "P", "E", "C", "T", "_", "R", "A", "T", "I", "O">>,
      IMAGE_SIZE |->
          <<"I", "M", "A", "G", "E", "_", "S", "I", "Z", "E">>,
      SCHEDULE_TIME |->
          <<"S", "C", "H", "E", "D", "U", "L", "E", "_", "T", "I", "M",
          "E">>,
      TIMEZONE |->
          <<"T", "I", "M", "E", "Z", "O", "N", "E">> ]

\* logger.ts:824-832: the keys in the order of the object the page submits
KeyOrder ==
    <<"GOOGLE_API_KEY", "GOOGLE_API_URL", "IMAGE_PROMPT", "ASPECT_RATIO",
      "IMAGE_SIZE", "SCHEDULE_TIME", "TIMEZONE">>

RECURSIVE JoinLines(_)
\* lines.join('\n')
JoinLines(lines) ==
    IF lines = <<>> THEN <<>>
    ELSE IF Len(lines) = 1 THEN lines[1]
    ELSE lines[1] \o <<"\n">> \o JoinLines(Tail(lines))

\* logger.ts:1320-1329: `content`, the lines KEY=escapedValue
SaveText(form) ==
    LET content == SaveConfigContent(form)
    IN  JoinLines([i \in 1..Len(KeyOrder) |->
                      KeyText[KeyOrder[i]] \o <<"=">> \o content[KeyOrder[i]]])

RECURSIVE SplitLines(_)
\* content.split('\n')
SplitLines(text) ==
    IF ~Includes(text, <<"\n">>) THEN <<text>>
    ELSE LET first == UpTo(text, "\n")
         IN  <<first>> \o SplitLines(SubSeq(text, Len(first) + 2, Len(text)))

RECURSIVE KeyPart(_)
\* the characters [^#=]+ matches at the start of a line
KeyPart(line) ==
    IF line = <<>> \/ Head(line) \in {"#", "="} THEN <<>>
    ELSE <<Head(line)>> \o KeyPart(Tail(line))

\* logger.ts:1255: line.match(/^([^#=]+)=(.*)$/)
LineMatch(line) ==
    LET k == KeyPart(line)
    IN  [ ok |-> k # <<>> /\ Len(line) > Len(k) /\ line[Len(k) + 1] = "=",
          key |-> k,
          value |-> SubSeq(line, Len(k) + 2, Len(line)) ]

\* config[key] = value on an object whose entries are kept in insertion order
Put(cfg, key, value) ==
    IF \E i \in 1..Len(cfg) : cfg[i][1] = key
    THEN [i \in 1..Len(cfg) |-> IF cfg[i][1] = key THEN <<key, value>> ELSE cfg[i]]
    ELSE Append(cfg, <<key, value>>)

\* config[key], the empty text when it is undefined
Get(cfg, key) ==
    IF \E i \in 1..Len(cfg) : cfg[i][1] = key
    THEN (CHOOSE e \in {cfg[i] : i \in 1..Len(cfg)} : e[1] = key)[2]
    ELSE <<>>

RECURSIVE ParseLines(_, _)
\* logger.ts:1254-1259
ParseLines(lines, cfg) ==
    IF lines = <<>> THEN cfg
    ELSE LET m == LineMatch(Head(lines))
         IN  ParseLines(Tail(lines),
                        IF m.ok THEN Put(cfg, Trim(m.key), Trim(m.value)) ELSE cfg)

\* logger.ts:1251-1261: `config` after the lines of `content` were read
ParseText(text) == IF text = <<>> THEN <<>> ELSE ParseLines(SplitLines(text), <<>>)

\* logger.ts:1270-1273: Object.entries(config) as KEY=value lines
EntriesText(cfg) ==
    JoinLines([i \in 1..Len(cfg) |-> cfg[i][1] \o <<"=">> \o cfg[i][2]])

\* logger.ts:1263-1273: correctedContent when the endpoint read from the text
\* is deprecated
CorrectedText(text) ==
    EntriesText(Put(ParseText(text), KeyText["GOOGLE_API_URL"], CanonicalApiUrl))

\* logger.ts:1263-1265
NeedsWriteBack(text) ==
    LET url == Get(ParseText(text), KeyText["GOOGLE_API_URL"])
    IN  url # <<>> /\ IsDeprecatedUrl(url)

\* the text after KEY= of the key's line, key by key
FileOfText(text) ==
    LET cfg == ParseText(text)
    IN  [k \in Keys |-> Get(cfg, KeyText[k])]

\* the keys that have a line in the text
LinesOfText(text) ==
    LET cfg == ParseText(text)
    IN  {k \in Keys : \E i \in 1..Len(cfg) : cfg[i][1] = KeyText[k]}

\* a file that holds `content` after `written` was written at its start
\* (a write through a descriptor of its own, at position 0)
Overlay(content, written) ==
    IF Len(content) > Len(written)
    THEN written \o SubSeq(content, Len(written) + 1, Len(content))
    ELSE written

\* the fs.writeFile calls that have written and closed
DoneOps == {o \in ops : o.pc = "done"}

\* an fs.writeFile call, with the number of calls that had ended when its
\* handler read its input and the position of its write among the writes
NewOp(kind, content) ==
    [ id |-> Cardinality(ops) + 1, kind |-> kind, pc |-> "ready", content |-> content,
      seen |-> Cardinality(DoneOps), wrote |-> 0 ]

RaceFrame ==
    /\ UNCHANGED <<config, scheduler, exitCode, sysTz, clock, alive, timers,
                   nextId, intervalId, inFlight, errLog, starts, lastStart, stopped,
                   stopCalled>>
    /\ UNCHANGED <<platform, isDev, trayUp, trayConfig, job, lastRun>>
    /\ UNCHANGED <<imgVars, verVars, updVars, obsVars, devEnvFile>>

\* logger.ts:1296-1332: save-config up to its call of fs.writeFile
SaveBegins(form) ==
    /\ Cardinality(ops) < MaxRaceOps
    /\ ops' = ops \cup {NewOp("save", SaveText(form))}
    /\ UNCHANGED <<envFile, present, disk, loaded, lastSave>>
    /\ RaceFrame

\* logger.ts:1242-1294: load-config; the write of the corrected text is
\* started and not awaited
LoadReads ==
    /\ Cardinality(ops) < MaxRaceOps
    /\ loaded' = LoadConfigResult(FileOfText(disk))
    /\ ops' = IF NeedsWriteBack(disk)
              THEN ops \cup {NewOp("writeback", CorrectedText(disk))}
              ELSE ops
    /\ UNCHANGED <<envFile, present, disk, lastSave>>
    /\ RaceFrame

\* fs.writeFile opens the file with flag 'w': the file is truncated
WriteOpens(o) ==
    /\ o \in ops /\ o.pc = "ready"
    /\ ops' = (ops \ {o}) \cup {[o EXCEPT !.pc = "open"]}
    /\ disk' = <<>>
    /\ envFile' = FileOfText(<<>>)
    /\ present' = {}
    /\ UNCHANGED <<loaded, lastSave>>
    /\ RaceFrame

\* fs.writeFile writes the content at the start of the file and closes it;
\* the promise settles; save-config returns (logger.ts:1332-1343)
WriteEnds(o) ==
    /\ o \in ops /\ o.pc = "open"
    /\ ops' = (ops \ {o}) \cup
              {[o EXCEPT !.pc = "done", !.wrote = Cardinality(DoneOps) + 1]}
    /\ \E text \in {Overlay(disk, o.content)} :
          /\ disk' = text
          /\ envFile' = FileOfText(text)
          /\ present' = LinesOfText(text)
    /\ lastSave' = IF o.kind = "save"
                   THEN [ userWrite |-> "ok", devWrite |-> "none", success |-> "true",
                          error |-> "" ]
                   ELSE lastSave
    /\ UNCHANGED loaded
    /\ RaceFrame

SaveInit ==
    /\ envFile \in CfgFiles
    /\ sysTz = DefaultTimezone
    /\ clock = 0
    /\ platform = "win32"
    /\ isDev \in BOOLEAN
    /\ ProcessInit
    /\ ExtIdle

SaveNext ==
    \/ \E form \in CfgForms, userWrite \in Writes, devWrite \in Writes :
          SaveConfigIpc(form, userWrite, devWrite)
    \/ LoadConfigIpc

SaveSpec == SaveInit /\ [][SaveNext]_vars

\* C22: save-config returns {success: false, error: <message>} when the write
\* of the user file fails, {success: true} when it succeeds, also when only
\* the write of the development copy fails; it never throws.
C22_SaveReturnsResult ==
    lastSave # NoSave =>
        /\ lastSave.success \in {"true", "false"}
        /\ lastSave.userWrite = "failed" =>
              lastSave.success = "false" /\ lastSave.error # ""
        /\ lastSave.userWrite = "ok" => lastSave.success = "true"

\* in dev mode the user file was written and the development copy was not
C22_Witness ==
    /\ isDev
    /\ lastSave.userWrite = "ok"
    /\ lastSave.devWrite = "failed"
    /\ lastSave.success = "true"
    /\ devEnvFile # envFile

\* the prompts of the saves that overlap
RacePrompts == {<<>>, PromptCity, PromptTwoWords}

RaceForms == { [FormOf(KeyValid) EXCEPT !["IMAGE_PROMPT"] = prompt] : prompt \in RacePrompts }

\* the files the settings window starts on: the two lines of an earlier
\* write-back, with a deprecated or with the canonical endpoint
RaceTexts ==
    { JoinLines(<<KeyText["GOOGLE_API_KEY"] \o <<"=">> \o KeyValid,
                  KeyText["GOOGLE_API_URL"] \o <<"=">> \o url>>)
      : url \in {SetupDefaultApiUrl, CanonicalApiUrl} }

RaceInit ==
    /\ disk \in RaceTexts
    /\ envFile = FileOfText(disk)
    /\ sysTz = DefaultTimezone
    /\ clock = 0
    /\ platform = "win32"
    /\ isDev = FALSE
    /\ ProcessInit
    /\ ImgIdle
    /\ VerIdle
    /\ UpdIdle
    /\ ObsIdle
    /\ loaded = NoLoaded
    /\ present = LinesOfText(disk)
    /\ devEnvFile = EmptyFile
    /\ lastSave = NoSave
    /\ ops = {}

RaceNext ==
    \/ \E form \in RaceForms : SaveBegins(form)
    \/ LoadReads
    \/ \E o \in ops : WriteOpens(o)
    \/ \E o \in ops : WriteEnds(o)

RaceSpec == RaceInit /\ [][RaceNext]_vars

\* the call whose write happened last
LastWriter == CHOOSE o \in DoneOps : o.wrote = Cardinality(DoneOps)

\* C27: once two concurrent save-config operations have both completed, the
\* file holds exactly the content written by the save whose write happened
\* last, never a mixture of both.
C27_LastWriteWins ==
    (/\ Cardinality(ops) >= 2
     /\ \A o \in ops : o.kind = "save" /\ o.pc = "done")
    => disk = LastWriter.content

\* C29: the write-back of load-config never overwrites newer data: when a
\* save-config has completed after load-config read the file, and every
\* write has ended, the file holds the saved configuration.
C29_WriteBackNeverOverwritesSave ==
    \A w \in ops, sv \in ops :
        (/\ ops = {w, sv}
         /\ w.kind = "writeback" /\ sv.kind = "save"
         /\ w.pc = "done" /\ sv.pc = "done"
         /\ sv.wrote > w.seen)
        => disk = sv.content

\* the documented default of a key; GOOGLE_API_KEY has none
DocumentedDefault ==
    [ GOOGLE_API_URL |-> CanonicalApiUrl, IMAGE_PROMPT |-> DefaultPrompt,
      ASPECT_RATIO |-> DefaultAspectRatio, IMAGE_SIZE |-> DefaultImageSize,
      SCHEDULE_TIME |-> DefaultScheduleTime, TIMEZONE |-> DefaultTimezone ]

\* the configuration object of config.ts, key by key
ConfigByKey(cfg) ==
    [ GOOGLE_API_URL |-> cfg.apiUrl, IMAGE_PROMPT |-> cfg.imagePrompt,
      ASPECT_RATIO |-> cfg.aspectRatio, IMAGE_SIZE |-> cfg.imageSize,
      SCHEDULE_TIME |-> cfg.scheduleTime, TIMEZONE |-> cfg.timezone ]

\* got is what a load returned for key k of a file in which the keys have
\* the values stored: the default for a missing key, the stored value
\* otherwise (a deprecated endpoint may be replaced)
DefaultIffMissing(k, got, stored) ==
    IF k \notin present THEN got = DocumentedDefault[k]
    ELSE \/ got = stored[k]
         \/ k = "GOOGLE_API_URL" /\ MatchesDeprecatedMarker(stored[k])

\* C21: a load (config.ts at module load, load-config) returns for every key
\* with a documented default that default if the key has no line in the
\* file, and the stored value if it has one.
C21_DefaultIffMissing ==
    [][/\ config' # config =>
             \A k \in DOMAIN DocumentedDefault :
                 DefaultIffMissing(k, ConfigByKey(config')[k], ProcessEnv(envFile))
       /\ loaded' # loaded =>
             \A k \in DOMAIN DocumentedDefault :
                 DefaultIffMissing(k, loaded'[k], ParsedConfig(envFile))]_vars

\* C20: after a load (load-config, or config.ts at module load) and after a save
\* no endpoint matching a deprecated marker is left: what load returns, what
\* the process uses and what the file holds is the canonical endpoint instead;
\* the canonical endpoint matches no marker, and a load of a file that holds
\* it leaves the file alone.
C20_DeprecatedEndpointRewritten ==
    [][/\ ~MatchesDeprecatedMarker(CanonicalApiUrl)
       /\ loaded' # loaded => ~MatchesDeprecatedMarker(loaded'["GOOGLE_API_URL"])
       /\ config' # config => ~MatchesDeprecatedMarker(config'.apiUrl)
       /\ envFile' # envFile => ~MatchesDeprecatedMarker(envFile'["GOOGLE_API_URL"])
       /\ ((loaded' # loaded \/ config' # config)
             /\ envFile["GOOGLE_API_URL"] = CanonicalApiUrl) => envFile' = envFile]_vars

-----------------------------------------------------------------------------
(* Properties of the scheduler *)

\* a run started by the one-shot timer or by the recurring trigger begins
ScheduledRunBegins == \E r \in inFlight' \ inFlight : r.src # "initial"

FailedScheduled == "Scheduled wallpaper update failed" \in errLog

\* the delay to the next HH:MM of a wall clock `off` ms ahead of UTC
RefDelay(at, off, h, m) ==
    LET tod == (at + off) % DayMs
        target == h * HourMs + m * MinuteMs
    IN  IF tod < target THEN target - tod ELSE target + DayMs - tod

\* C1: once stop() has returned, no run started by the one-shot timer or by the
\* recurring trigger ever begins (until startDailySchedule is called again).
C1_StopCancelsEveryTrigger == [][stopped => ~ScheduledRunBegins]_vars

\* C24: stop() is idempotent: a call of stop() on a Scheduler that is already
\* stopped (an earlier stop() returned and no recurring trigger is recorded)
\* or was never started does not throw and changes no state of the
\* Scheduler, so two successive calls leave the same state as one.
C24_StopIsIdempotent ==
    [][(/\ stopLog'.calls # stopLog.calls
        /\ (stopLog.calls > 0 /\ intervalId = 0) \/ starts = 0)
       => /\ ~stopLog'.threw
          /\ UNCHANGED <<timers, intervalId, inFlight, nextId, config, scheduler,
                         alive, exitCode, errLog>>]_vars

\* stop() returned twice, the second call on a stopped Scheduler with runs
\* in flight and a one-shot timer pending
C24_Witness ==
    /\ stopLog = [ calls |-> 2, threw |-> FALSE, onStopped |-> TRUE ]
    /\ stopped /\ intervalId = 0
    /\ \E t \in timers : t.kind = "timeout"
    /\ inFlight # {}

\* C25: when the one-shot timer fires, the recurring 24-hour trigger is armed
\* only after the Refresh Job execution started by that fire has finished:
\* in the step that arms the recurring trigger the run begun by the fire
\* of that one-shot timer is not unfinished.
C25_IntervalArmedAfterRunEnds ==
    [][\A t \in timers' :
          (t.kind = "interval" /\ ~\E u \in timers : u.id = t.id)
          => ~\E r \in inFlight', u \in timers :
                  /\ u.kind = "timeout" /\ u \notin timers'
                  /\ r.src = "timeout" /\ r.timer = u.id]_vars

\* C28: after any sequence of startDailySchedule calls, timer firings and
\* stop calls on one Scheduler, every armed recurring trigger is the one
\* recorded in intervalId.
C28_IntervalIdRecordsEveryTrigger ==
    \A t \in timers : t.kind = "interval" => t.id = intervalId

\* C2: after one call of startDailySchedule, at most one Refresh Job execution
\* begun by the scheduler (catch-up, one-shot, recurring) is unfinished at any
\* time.
C2_AtMostOneInFlight == starts <= 1 => Cardinality(inFlight) <= 1

\* C3: once a run begun by a timer has failed, and as long as stop() was not
\* called, the failure is logged, the process is alive (nothing was rethrown
\* out of the callback) and the recurring trigger is armed, due within 24 hours.
C3_FailureKeepsSchedule ==
    (FailedScheduled /\ ~stopCalled) =>
        /\ alive
        /\ "Wallpaper update failed" \in errLog
        /\ \E t \in timers : /\ t.kind = "interval"
                             /\ clock <= t.due
                             /\ t.due <= clock + 24 * HourMs

C3_Witness ==
    /\ FailedScheduled /\ ~stopCalled
    /\ inFlight = {}
    /\ \E t \in timers : t.kind = "interval" /\ t.due = clock + 24 * HourMs

\* C4: the delay armed by startDailySchedule is (today's HH:MM - now) when now
\* is strictly before today's HH:MM (local time of the process) and
\* (tomorrow's HH:MM - now) when now is at or after it.
C4_DelayTodayOrTomorrow ==
    starts > 0 =>
        \A h \in Hours, m \in Minutes :
            config.scheduleTime = HHMM(h, m) =>
                lastStart.delay = RefDelay(lastStart.at, TzOffset(sysTz), h, m)

\* now is exactly today's HH:MM: the target is tomorrow's
C4_Witness ==
    /\ starts > 0
    /\ config.scheduleTime = HHMM(9, 0)
    /\ (lastStart.at + TzOffset(sysTz)) % DayMs = 9 * HourMs
    /\ lastStart.delay = DayMs

\* C5: a call of startDailySchedule begins the catch-up run exactly once if the
\* delay exceeds 3,600,000 ms and not at all otherwise, and in both cases arms
\* the one-shot timer for the delay.
C5_CatchUpIffOverAnHour ==
    [][starts' > starts =>
          /\ Cardinality({r \in inFlight' \ inFlight : r.src = "initial"})
                = (IF lastStart'.delay > 3600000 THEN 1 ELSE 0)
          /\ Cardinality({t \in timers' \ timers :
                             /\ t.kind = "timeout"
                             /\ t.due = clock + lastStart'.delay}) = 1
          /\ Cardinality(timers' \ timers) = 1]_vars

\* the delay is exactly one hour: no catch-up run, the timer is armed
C5_Witness ==
    /\ starts > 0
    /\ lastStart.delay = 3600000
    /\ inFlight = {}
    /\ \E t \in timers : t.kind = "timeout" /\ t.due = lastStart.at + 3600000

\* C6: the target is the configured HH:MM in the configured time zone
\* (config.schedule.timezone).
C6_TargetInConfiguredZone ==
    starts > 0 =>
        \A h \in Hours, m \in Minutes :
            config.scheduleTime = HHMM(h, m) =>
                lastStart.delay =
                    RefDelay(lastStart.at, TzOffset(config.timezone), h, m)

\* C7: every armed timer is due at the delay computed from the configuration
\* the process loaded, plus whole days: a SCHEDULE_TIME saved later changes
\* neither the armed delay nor the 24-hour firing times.
C7_TimingFrozenAtStart ==
    \A t \in timers :
        \E k \in 0..(MaxDays + 1) :
            /\ t.kind = "timeout" => k = 0
            /\ t.due = t.startedAt
                       + MsUntilNext(config.scheduleTime, t.startedAt, TzOffset(sysTz))
                       + k * 24 * HourMs

\* the file holds another SCHEDULE_TIME than the process loaded, and the
\* recurring trigger is armed
C7_Witness ==
    /\ alive
    /\ LoadConfig(envFile).scheduleTime # config.scheduleTime
    /\ \E t \in timers : t.kind = "interval" /\ t.due > t.startedAt + 24 * HourMs

-----------------------------------------------------------------------------
(* Properties of the Refresh Job *)

\* the request is made with the prompt, aspect ratio and size of `fresh`
UsesFresh(used, fresh) ==
    /\ used.prompt = fresh.prompt
    /\ used.aspectRatio = fresh.aspectRatio
    /\ used.imageSize = fresh.imageSize

\* C8: every Refresh Job, of the scheduler and of the tray application, is run
\* with the prompt, aspect ratio and size the configuration file holds when
\* the job begins (so a value saved after process start is used by the next job).
C8_JobUsesSavedSettings ==
    [][/\ \A r \in inFlight' \ inFlight : UsesFresh(r.used, FreshParams(envFile))
       /\ (job' # job /\ job'.pc = "running") =>
              UsesFresh(job'.used, FreshParams(envFile))]_vars

\* C9: a Refresh Job (generateImage, then setWallpaper, as runOnce performs
\* them) that made its provider request and completed without an error has
\* set the wallpaper, on every platform.
C9_SuccessMeansWallpaperSet == (lastRun.requested /\ lastRun.ok) => lastRun.set

\* part_000:917-919 and 976-979: the code a process of the command `once`
\* exits with when its refresh attempt ended as `run`: process.exit(0) after
\* the two awaited calls, process.exit(1) in the catch
OnceExitCode(run) == IF run.ok THEN 0 ELSE 1

\* C23: a process of the command `once` exits with code 0 if and only if the
\* image was generated and the wallpaper was set; every failure gives a
\* non-zero code.
C23_OnceExitsZeroIffWallpaperSet ==
    lastRun.caller = "once" => (OnceExitCode(lastRun) = 0 <=> lastRun.set)

\* C10: every provider request is made with a non-empty API key; a refresh
\* attempt whose ImageGenerator is constructed without a key ends with the
\* configuration error and begins no job; the tray application begins a
\* job (or spawns the `once` process) only if hasApiKey() holds.
C10_NoRequestWithoutCredential ==
    [][/\ \A r \in inFlight' : r.used.apiKey # <<>>
       /\ job'.pc = "running" => job'.used.apiKey # <<>>
       /\ lastRun'.requested =>
              lastRun'.apiKey # <<>> /\ lastRun'.error # ConfigErrorMessage
       /\ (lastRun' # lastRun /\ lastRun'.error = ConfigErrorMessage) =>
              /\ ~lastRun'.requested
              /\ job'.pc = "running" => job' = job
              /\ inFlight' = inFlight
       /\ (job.pc = "idle" /\ job'.pc = "running" /\ job'.caller = "tray") =>
              hasApiKey(envFile)
       /\ (job.pc = "idle" /\ job'.pc = "spawned") => hasApiKey(envFile)]_vars

\* the file holds no key, the tray application is up, the last attempt ended
\* with the configuration error and nothing is being generated
C10_Witness ==
    /\ trayUp /\ ~hasApiKey(envFile)
    /\ LoadConfig(envFile).apiKey = <<>>
    /\ lastRun.error = ConfigErrorMessage /\ ~lastRun.requested
    /\ job.pc = "idle" /\ inFlight = {}

====
